---------------------------- MODULE Spec2Model ----------------------------
(***************************************************************************)
(* A model of the aggregation engine of marco (package marco, DB.Query).   *)
(*                                                                         *)
(* A Query call is a state machine: parseAggregationStagesJSON (Parse),    *)
(* db.Collection (Fetch), then one action per stage executor, each of      *)
(* which ends with the runner's "if len(stageInput) == 0 { break }" and,   *)
(* after the last stage, the final return.                                 *)
(*                                                                         *)
(* JSON values are tagged records [k, v]; a document (and every JSON       *)
(* object) is a function from keys to values; a string value is its        *)
(* sequence of ASCII codes, so that formatting, parsing and comparing      *)
(* strings are computed and not assumed.                                   *)
(***************************************************************************)
EXTENDS Integers, Sequences, FiniteSets, TLC

VARIABLES
    db,             \* storage: collection name -> sequence of documents
    collectionName, \* argument of Query
    query,          \* argument of Query, decoded: a sequence of stage objects
    pc,             \* "parse", "fetch", "run", "done", "panic"
    stages,         \* []AggregationStage built by the parser
    idx,            \* position in stages of the stage to dispatch next
    stageInput,     \* the working sequence of Query
    ret,            \* what Query returned: [docs, err]
    ran,            \* history: the stage executors invoked, [stage, in, out]
    reads,          \* history: the collections read by db.Collection
    prev            \* history: what earlier Query calls of the same arguments returned

vars == <<db, collectionName, query, pc, stages, idx, stageInput, ret, ran, reads, prev>>

-----------------------------------------------------------------------------
(* Values: what encoding/json decodes into interface{}.                    *)

Nil == [k |-> "null", v |-> 0]
Num(n) == [k |-> "num", v |-> n]
Str(s) == [k |-> "str", v |-> s]
Bool(b) == [k |-> "bool", v |-> b]
Arr(a) == [k |-> "arr", v |-> a]
Maps(a) == [k |-> "maps", v |-> a]
Doc(d) == [k |-> "doc", v |-> d]

EmptyDoc == <<>>

\* m[key] of a Go map: the zero value nil when the key is absent.
Get(m, key) == IF key \in DOMAIN m THEN m[key] ELSE Nil

\* m[key] = val, on a copy.
Put(m, key, val) == [x \in (DOMAIN m) \cup {key} |-> IF x = key THEN val ELSE m[x]]

NoErr == "nil"

Min(a, b) == IF a < b THEN a ELSE b
Max(a, b) == IF a > b THEN a ELSE b

\* The orders in which "for k, v := range m" may enumerate the keys S of a map.
Orders(S) ==
    {o \in [1..Cardinality(S) -> S] : \A i, j \in 1..Cardinality(S) : i # j => o[i] # o[j]}

-----------------------------------------------------------------------------
(* Strings.  The keys of the model are TLA+ strings; Spell gives the       *)
(* characters of each key that the code reads as text or builds from text. *)

Spell ==
    [ a |-> <<97>>, b |-> <<98>>, f |-> <<102>>, g |-> <<103>>, k |-> <<107>>,
      n |-> <<110>>, x |-> <<120>>, age |-> <<97, 103, 101>>,
      users |-> <<117, 115, 101, 114, 115>>,
      orders |-> <<111, 114, 100, 101, 114, 115>>,
      ghost |-> <<103, 104, 111, 115, 116>>,
      joined |-> <<106, 111, 105, 110, 101, 100>>,
      total |-> <<116, 111, 116, 97, 108>>,
      Other |-> <<79, 116, 104, 101, 114>>,
      count |-> <<99, 111, 117, 110, 116>>,
      _id |-> <<95, 105, 100>>, avg |-> <<97, 118, 103>>, p |-> <<112>>,
      key |-> <<107, 101, 121>>, idx |-> <<105, 100, 120>> ]
    @@ ("a.b" :> <<97, 46, 98>>) @@ ("$x" :> <<36, 120>>)
    @@ ("$expr" :> <<36, 101, 120, 112, 114>>)

\* The key spelled by the string s ("?" stands for a key no document has).
KeyOf(s) == IF \E key \in DOMAIN Spell : Spell[key] = s
            THEN CHOOSE key \in DOMAIN Spell : Spell[key] = s
            ELSE "?"

S_nil == <<60, 110, 105, 108, 62>>      \* "<nil>"
S_true == <<116, 114, 117, 101>>        \* "true"
S_false == <<102, 97, 108, 115, 101>>   \* "false"

RECURSIVE Digits(_)
Digits(n) == IF n < 10 THEN <<48 + n>> ELSE Digits(n \div 10) \o <<48 + (n % 10)>>

\* The number that stands for the float64 2^53 = 9007199254740992, the least
\* positive float64 f for which f + 1 is f again.  The numbers of the model
\* are exact below it; it is kept as one number above all the others, with
\* the float64 arithmetic of 2^53 in float64PlusOne.
Float64Limit == 2147483647

\* "9.007199254740992e+15"
S_limit ==
    <<57, 46, 48, 48, 55, 49, 57, 57, 50, 53, 52, 55, 52, 48, 57, 57, 50, 101, 43, 49, 53>>

\* x + 1 in float64: 2^53 + 1 is no float64 and rounds to 2^53.
float64PlusOne(x) == IF x = Float64Limit THEN x ELSE x + 1

\* strconv.FormatFloat(f, 'g', -1, 64) of an integral float64 of small
\* magnitude, and of 2^53.
FormatNum(n) ==
    IF n = Float64Limit THEN S_limit
    ELSE IF n < 0 THEN <<45>> \o Digits(-n) ELSE Digits(n)

\* fmt.Sprintf("%v", val) for nil, float64, string and bool.
Sprintf(val) ==
    CASE val.k = "null" -> S_nil
      [] val.k = "num" -> FormatNum(val.v)
      [] val.k = "str" -> val.v
      [] val.k = "bool" -> IF val.v THEN S_true ELSE S_false

\* a < b of two Go strings: bytewise lexicographic.
StrLess(s, t) ==
    \E i \in 1..(Len(t)) :
        /\ \A j \in 1..(i - 1) : j <= Len(s) /\ s[j] = t[j]
        /\ \/ i = Len(s) + 1
           \/ i <= Len(s) /\ s[i] < t[i]

IsDigits(s) == Len(s) > 0 /\ \A i \in 1..Len(s) : s[i] \in 48..57

RECURSIVE DigitsValue(_)
DigitsValue(s) == IF Len(s) = 0 THEN 0
                  ELSE 10 * DigitsValue(SubSeq(s, 1, Len(s) - 1)) + (s[Len(s)] - 48)

\* strconv.ParseFloat(s, 64) succeeds; the model's strings are optionally
\* signed decimal integers or hold a character no float syntax allows.
ParseFloatOk(s) ==
    \/ IsDigits(s)
    \/ Len(s) > 1 /\ s[1] \in {43, 45} /\ IsDigits(Tail(s))

ParseFloat(s) ==
    IF s[1] = 45 THEN 0 - DigitsValue(Tail(s))
    ELSE IF s[1] = 43 THEN DigitsValue(Tail(s))
    ELSE DigitsValue(s)

\* toFloat64: the bool result.
toFloat64Ok(val) == val.k = "num" \/ (val.k = "str" /\ ParseFloatOk(val.v))

\* toFloat64: the float64 result (0 when not ok).
toFloat64(val) ==
    IF val.k = "num" THEN val.v
    ELSE IF val.k = "str" /\ ParseFloatOk(val.v) THEN ParseFloat(val.v)
    ELSE 0

\* strings.HasPrefix(s, "$") and strings.TrimPrefix(s, "$")
HasDollar(s) == Len(s) > 0 /\ s[1] = 36
TrimDollar(s) == IF HasDollar(s) THEN Tail(s) ELSE s

\* asMap: the value when it is an object, else a nil map.
asMap(val) == IF val.k = "doc" THEN val.v ELSE EmptyDoc

-----------------------------------------------------------------------------
(* $limit and $skip                                                        *)

\* params[key].(float64)
IsFloat64(params, key) == Get(params, key).k = "num"

limitStage_takesOneMore(input, params) ==
    LET useOwn == toFloat64Ok(Get(params, "$limit"))
        useValue == toFloat64Ok(Get(params, "value"))
        limit == IF useOwn THEN toFloat64(Get(params, "$limit"))
                 ELSE toFloat64(Get(params, "value"))
    IN  IF ~useOwn /\ ~useValue THEN input
        ELSE IF limit <= 0 THEN <<>>
        ELSE IF limit >= Len(input) THEN input
        ELSE SubSeq(input, 1, limit + 1)

limitStage(input, params) ==
    LET useOwn == toFloat64Ok(Get(params, "$limit"))
        useValue == toFloat64Ok(Get(params, "value"))
        limit == IF useOwn THEN toFloat64(Get(params, "$limit"))
                 ELSE toFloat64(Get(params, "value"))
    IN  IF ~useOwn /\ ~useValue THEN input
        ELSE IF limit <= 0 THEN <<>>
        ELSE IF limit >= Len(input) THEN input
        ELSE SubSeq(input, 1, limit)

validateLimitStage(params) ==
    IF ~IsFloat64(params, "value") THEN "$limit must have a numeric value"
    ELSE IF params["value"].v < 0 THEN "$limit value must be non-negative"
    ELSE NoErr

skipStage(input, params) ==
    LET useOwn == toFloat64Ok(Get(params, "$skip"))
        useValue == toFloat64Ok(Get(params, "value"))
        skip == IF useOwn THEN toFloat64(Get(params, "$skip"))
                ELSE toFloat64(Get(params, "value"))
        n == Max(0, skip)
    IN  IF ~useOwn /\ ~useValue THEN input
        ELSE IF n > Len(input) THEN <<>>
        ELSE SubSeq(input, n + 1, Len(input))

validateSkipStage(params) ==
    IF ~IsFloat64(params, "value") THEN "$skip must have a numeric value"
    ELSE IF params["value"].v < 0 THEN "$skip value must be non-negative"
    ELSE NoErr


-----------------------------------------------------------------------------
(* $sort                                                                   *)

\* The comparator given to sort.SliceStable, for one enumeration order of the
\* keys of params: whether document di sorts before document dj, deciding on
\* the keys order[p..].
RECURSIVE sortLess(_, _, _, _, _)
sortLess(params, order, p, di, dj) ==
    IF p > Len(order) THEN FALSE
    ELSE LET field == order[p]
             direction == params[field]
             iVal == Get(di, field)
             jVal == Get(dj, field)
             iStr == Sprintf(iVal)
             jStr == Sprintf(jVal)
         IN  IF direction.k # "num" THEN sortLess(params, order, p + 1, di, dj)
             ELSE IF toFloat64Ok(iVal) /\ toFloat64Ok(jVal)
             THEN IF toFloat64(iVal) = toFloat64(jVal)
                  THEN sortLess(params, order, p + 1, di, dj)
                  ELSE IF direction.v = 1 THEN toFloat64(iVal) < toFloat64(jVal)
                  ELSE toFloat64(iVal) > toFloat64(jVal)
             ELSE IF iStr = jStr THEN sortLess(params, order, p + 1, di, dj)
             ELSE IF direction.v = 1 THEN StrLess(iStr, jStr)
             ELSE StrLess(jStr, iStr)

\* What one call of the comparator may answer: "range params" starts anew,
\* in an order of its own, at every call.
LessOutcomes(params, di, dj) ==
    {sortLess(params, o, 1, di, dj) : o \in Orders(DOMAIN params)}

Swap(s, i, j) == [s EXCEPT ![i] = s[j], ![j] = s[i]]

\* sort.SliceStable on fewer than 20 elements is an insertion sort:
\*   for i := 1; i < n; i++ { for j := i; j > 0 && less(j, j-1); j-- { swap(j, j-1) } }
\* SinkFrom is the inner loop from position j (1-based), InsertFrom the outer
\* loop from position i; each gives every sequence the loop may end with.
RECURSIVE SinkFrom(_, _, _)
SinkFrom(params, s, j) ==
    IF j = 1 THEN {s}
    ELSE UNION {IF less THEN SinkFrom(params, Swap(s, j, j - 1), j - 1) ELSE {s} :
                    less \in LessOutcomes(params, s[j], s[j - 1])}

RECURSIVE InsertFrom(_, _, _)
InsertFrom(params, s, i) ==
    IF i > Len(s) THEN {s}
    ELSE UNION {InsertFrom(params, t, i + 1) : t \in SinkFrom(params, s, i)}

\* sortStage: the sequences it may return.
sortStage(input, params) == InsertFrom(params, input, 2)

validateSortStage(params) ==
    IF DOMAIN params = {} THEN "$sort stage must not be empty"
    ELSE IF \E field \in DOMAIN params : params[field].k # "num"
    THEN "$sort field must have a numeric value (1 or -1)"
    ELSE IF \E field \in DOMAIN params : params[field].v \notin {1, -1}
    THEN "$sort field must be either 1 or -1"
    ELSE NoErr

-----------------------------------------------------------------------------
(* $match                                                                  *)

\* strings.Split(path, "."): the parts after the characters cur.
RECURSIVE SplitDot(_, _)
SplitDot(s, cur) ==
    IF Len(s) = 0 THEN <<cur>>
    ELSE IF Head(s) = 46 THEN <<cur>> \o SplitDot(Tail(s), <<>>)
    ELSE SplitDot(Tail(s), Append(cur, Head(s)))

\* getNestedFieldExists: the loop over parts[i..], current being a map.
RECURSIVE NestedFrom(_, _, _)
NestedFrom(current, parts, i) ==
    LET part == KeyOf(parts[i])
    IN  IF part \notin DOMAIN current THEN [val |-> Nil, exists |-> FALSE]
        ELSE IF i = Len(parts) THEN [val |-> current[part], exists |-> TRUE]
        ELSE IF current[part].k = "doc" THEN NestedFrom(current[part].v, parts, i + 1)
        ELSE [val |-> Nil, exists |-> FALSE]

getNestedFieldExists(doc, path) == NestedFrom(doc, SplitDot(Spell[path], <<>>), 1)

\* reflect.DeepEqual on decoded JSON values
eqOperator(value, opVal) == value = opVal

compareOperator_missingIsZero(opKey, value, opVal) ==
    CASE opKey = "$gt" -> toFloat64Ok(opVal) /\ toFloat64(value) > toFloat64(opVal)
      [] opKey = "$gte" -> toFloat64Ok(opVal) /\ toFloat64(value) >= toFloat64(opVal)
      [] opKey = "$lt" -> toFloat64Ok(opVal) /\ toFloat64(value) < toFloat64(opVal)
      [] opKey = "$lte" -> toFloat64Ok(opVal) /\ toFloat64(value) <= toFloat64(opVal)

\* The cases $gt, $gte, $lt, $lte of evaluateOperators: whether the operator holds.
compareOperator(opKey, value, opVal) ==
    /\ toFloat64Ok(value)
    /\ toFloat64Ok(opVal)
    /\ CASE opKey = "$gt" -> toFloat64(value) > toFloat64(opVal)
         [] opKey = "$gte" -> toFloat64(value) >= toFloat64(opVal)
         [] opKey = "$lt" -> toFloat64(value) < toFloat64(opVal)
         [] opKey = "$lte" -> toFloat64(value) <= toFloat64(opVal)

\* regexp.MatchString(pattern, s) for a pattern made of letters only: such a
\* pattern matches the strings that contain it.
regexpMatchString(pattern, s) ==
    \E from \in 1..(Len(s) + 1) :
        /\ from + Len(pattern) - 1 <= Len(s)
        /\ SubSeq(s, from, from + Len(pattern) - 1) = pattern

\* handleRegexNot: the value is a string that the pattern, a string, matches.
handleRegexNot(value, pattern) ==
    IF value.k # "str" \/ pattern.k # "str" THEN FALSE
    ELSE regexpMatchString(pattern.v, value.v)

\* The operators that have a case of their own in evaluateOperators; every
\* other one takes the default case and fails the match.
OperatorCases ==
    {"$not", "$elemMatch", "$all", "$size", "$regex", "$options", "$eq", "$ne", "$gt",
     "$gte", "$lt", "$lte", "$in", "$nin", "$exists", "$type", "$mod", "$expr"}

\* evaluateOperators: every operator of the object must hold (the loop leaves
\* with false at the first one that does not).  Modelled cases: $not with an
\* operator object and with a direct value, the comparisons, $in, $nin, $exists, $expr and the default.
RECURSIVE evaluateOperators(_, _, _)
evaluateOperators(value, valueExists, operators) ==
    \A opKey \in DOMAIN operators :
        LET opVal == operators[opKey]
        IN  CASE opKey = "$not" /\ opVal.k = "doc" ->
                    ~evaluateOperators(value, valueExists, opVal.v)
              [] opKey = "$not" /\ opVal.k # "doc" -> handleRegexNot(value, opVal)
              [] opKey = "$eq" -> eqOperator(value, opVal)
              [] opKey = "$ne" -> ~eqOperator(value, opVal)
              [] opKey \in {"$gt", "$gte", "$lt", "$lte"} -> compareOperator(opKey, value, opVal)
              [] opKey = "$in" -> opVal.k = "arr" /\ \E i \in 1..Len(opVal.v) : value = opVal.v[i]
              [] opKey = "$nin" -> opVal.k = "arr" /\ \A i \in 1..Len(opVal.v) : value # opVal.v[i]
              [] opKey = "$exists" -> opVal.k = "bool" /\ (opVal.v <=> valueExists)
              [] opKey = "$expr" -> FALSE
              [] opKey \notin OperatorCases -> FALSE

\* The default case of evaluateMatchExpression: one field entry of a condition.
fieldHolds(doc, key, val) ==
    LET got == getNestedFieldExists(doc, key)
    IN  IF val.k = "doc" THEN evaluateOperators(got.val, got.exists, val.v)
        ELSE got.val = val

\* evaluateMatchExpression(doc, expr): the results it may return.  A condition
\* object is walked in the order "range condition" enumerates its keys, and
\* the cases $and, $or and $nor return from inside that loop.
RECURSIVE evaluateMatchExpression(_, _)
RECURSIVE conditionFrom(_, _, _, _)
RECURSIVE clauseResults(_, _)

\* The results the clauses may have, one per clause.
clauseResults(doc, clauses) ==
    {r \in [1..Len(clauses) -> BOOLEAN] :
        \A i \in 1..Len(clauses) : r[i] \in evaluateMatchExpression(doc, clauses[i])}

conditionFrom(doc, condition, order, p) ==
    IF p > Len(order) THEN {TRUE}
    ELSE LET key == order[p]
             val == condition[key]
         IN  CASE key = "$and" ->
                    IF val.k # "arr" THEN {FALSE}
                    ELSE {\A i \in DOMAIN r : r[i] : r \in clauseResults(doc, val.v)}
               [] key = "$or" ->
                    IF val.k # "arr" THEN {FALSE}
                    ELSE {\E i \in DOMAIN r : r[i] : r \in clauseResults(doc, val.v)}
               [] key = "$nor" ->
                    IF val.k # "arr" THEN {FALSE}
                    ELSE {\A i \in DOMAIN r : ~r[i] : r \in clauseResults(doc, val.v)}
               [] OTHER ->
                    IF fieldHolds(doc, key, val)
                    THEN conditionFrom(doc, condition, order, p + 1)
                    ELSE {FALSE}

evaluateMatchExpression(doc, expr) ==
    CASE expr.k = "doc" ->
            UNION {conditionFrom(doc, expr.v, order, 1) : order \in Orders(DOMAIN expr.v)}
      [] expr.k = "arr" -> {\A i \in DOMAIN r : r[i] : r \in clauseResults(doc, expr.v)}
      [] OTHER -> {FALSE}

\* The documents of input that keep[i] selects, in order.
RECURSIVE Filter(_, _)
Filter(input, keep) ==
    IF Len(input) = 0 THEN <<>>
    ELSE (IF keep[1] THEN <<input[1]>> ELSE <<>>)
         \o Filter(Tail(input), [i \in 1..(Len(input) - 1) |-> keep[i + 1]])

\* matchStage: the sequences it may return.
matchStage(input, params) ==
    {Filter(input, keep) :
        keep \in {r \in [1..Len(input) -> BOOLEAN] :
                    \A i \in 1..Len(input) :
                        r[i] \in evaluateMatchExpression(input[i], Doc(params))}}

isValidMatchOperator(op) ==
    op \in {
        "$eq", "$gt", "$gte", "$in", "$lt", "$lte", "$ne", "$nin", "$and",
        "$or", "$not", "$nor", "$options", "$exists", "$type", "$expr",
        "$jsonSchema", "$mod", "$regex", "$text", "$where", "$all",
        "$elemMatch", "$size", "$geoWithin", "$geoIntersects", "$near",
        "$nearSphere", "$bitsAllClear", "$bitsAllSet", "$bitsAnyClear",
        "$bitsAnySet", "$comment", "$sampleRate", "$rand", "$meta",
        "$literal", "$var", "$concat", "$substr", "$toLower", "$toUpper",
        "$trim", "$ltrim", "$rtrim", "$split", "$strLenBytes", "$strLenCP",
        "$strcasecmp", "$substrBytes", "$substrCP", "$indexOfBytes",
        "$indexOfCP", "$toString", "$dateToString", "$dateFromString",
        "$add", "$subtract", "$multiply", "$divide", "$pow", "$sqrt", "$abs",
        "$ceil", "$floor", "$trunc", "$round", "$sin", "$cos", "$tan",
        "$asin", "$acos", "$atan", "$atan2", "$ln", "$log", "$log10", "$exp",
        "$min", "$max", "$avg", "$sum", "$stdDevPop", "$stdDevSamp",
        "$first", "$last", "$push", "$addToSet", "$mergeObjects",
        "$arrayElemAt", "$filter", "$map", "$reduce", "$zip", "$range",
        "$concatArrays", "$arrayToObject", "$objectToArray", "$setUnion",
        "$setIntersection", "$setDifference", "$setEquals", "$setIsSubset",
        "$anyElementTrue", "$allElementsTrue", "$document", "$function",
        "$let", "$switch", "$cond", "$ifNull", "$isNumber", "$isString",
        "$isDate", "$isArray", "$isObject", "$isBool" }

validateMatchStage(params) ==
    IF DOMAIN params = {} THEN "$match stage must not be empty"
    ELSE IF \E field \in DOMAIN params :
                IF field \in {"$or", "$and", "$nor"}
                THEN \/ params[field].k # "arr"
                     \/ Len(params[field].v) = 0
                     \/ \E i \in 1..Len(params[field].v) : params[field].v[i].k # "doc"
                ELSE CASE params[field].k = "doc" ->
                            \E op \in DOMAIN params[field].v : ~isValidMatchOperator(op)
                       [] params[field].k \in {"str", "num", "bool"} -> FALSE
                       [] OTHER -> TRUE
    THEN "$match: invalid condition"
    ELSE NoErr

-----------------------------------------------------------------------------
(* $count                                                                  *)

\* strings.TrimSpace(s) == ""
IsBlank(s) == \A i \in 1..Len(s) : s[i] \in {9, 10, 11, 12, 13, 32}

\* strings.ContainsAny(s, " \t\n")
HasSpace(s) == \E i \in 1..Len(s) : s[i] \in {32, 9, 10}

\* The key among field, $count and path that the $count stage reads its field
\* name from ("" when the map has none of them).
countKey(params) ==
    IF "field" \in DOMAIN params THEN "field"
    ELSE IF "$count" \in DOMAIN params THEN "$count"
    ELSE IF "path" \in DOMAIN params THEN "path"
    ELSE ""

\* countStage: [out, err]
countStage(input, params) ==
    LET key == countKey(params)
    IN  IF key = "" THEN [out |-> <<>>, err |-> "$count stage requires a 'field' key in the map"]
        ELSE IF params[key].k # "str" \/ IsBlank(params[key].v)
        THEN [out |-> <<>>, err |-> "$count 'field' parameter must be a non-empty string"]
        ELSE [out |-> <<(KeyOf(params[key].v) :> Num(Len(input)))>>, err |-> NoErr]

validateCountStage(params) ==
    LET key == countKey(params)
    IN  IF key = "" THEN "$count stage requires a 'field' parameter in the map"
        ELSE IF params[key].k # "str" \/ IsBlank(params[key].v)
        THEN "$count 'field' parameter must be a non-empty string"
        ELSE IF HasDollar(params[key].v) THEN "$count 'field' parameter must not start with '$'"
        ELSE IF HasSpace(params[key].v)
        THEN "$count 'field' parameter must not contain whitespace characters"
        ELSE NoErr

-----------------------------------------------------------------------------
(* $sample                                                                 *)

\* temp[j] = temp[len(temp)-1]; temp = temp[:len(temp)-1]   (j is 1-based here)
RemoveSwap(temp, j) ==
    [i \in 1..(Len(temp) - 1) |-> IF i = j THEN temp[Len(temp)] ELSE temp[i]]

DrawFrom_withReplacement(temp, n) == [1..n -> {temp[j] : j \in 1..Len(temp)}]

\* The loop of sampleStage: the sequences of n elements it may draw from
\* temp, rand.Intn(len(temp)) giving any index.
RECURSIVE DrawFrom(_, _)
DrawFrom(temp, n) ==
    IF n = 0 THEN {<<>>}
    ELSE UNION {{<<temp[j]>> \o rest : rest \in DrawFrom(RemoveSwap(temp, j), n - 1)} :
                    j \in 1..Len(temp)}

\* rand.Shuffle on a copy: any permutation.
Shuffles(input) ==
    {[i \in 1..Len(input) |-> input[o[i]]] : o \in Orders(1..Len(input))}

\* sampleStage: the results it may return, [out, err, input], input being
\* the caller's slice when it returns (the stage works on copies of it).
sampleStage(input, params) ==
    LET size == toFloat64(Get(params, "size"))
        n == Max(0, size)
    IN  IF "size" \notin DOMAIN params
        THEN {[out |-> <<>>, err |-> "$sample stage requires a 'size' parameter", input |-> input]}
        ELSE IF ~toFloat64Ok(params["size"])
        THEN {[out |-> <<>>, err |-> "$sample 'size' parameter must be a number", input |-> input]}
        ELSE IF n = 0 THEN {[out |-> <<>>, err |-> NoErr, input |-> input]}
        ELSE IF n >= Len(input)
        THEN {[out |-> shuffled, err |-> NoErr, input |-> input] : shuffled \in Shuffles(input)}
        ELSE {[out |-> sampled, err |-> NoErr, input |-> input] : sampled \in DrawFrom(input, n)}

validateSampleStage(params) ==
    IF "size" \notin DOMAIN params THEN "$sample stage requires a 'size' parameter"
    ELSE IF ~toFloat64Ok(params["size"]) THEN "$sample 'size' parameter must be a number"
    ELSE IF toFloat64(params["size"]) <= 0 THEN "$sample 'size' parameter must be a positive number"
    ELSE NoErr

-----------------------------------------------------------------------------
(* $bucketAuto                                                             *)

cleanGroupByField(field) == TrimDollar(field)

\* sort.Float64s
RECURSIVE SortFloat64s(_)
SortFloat64s(values) ==
    IF Len(values) = 0 THEN <<>>
    ELSE LET rest == SortFloat64s(Tail(values))
             below == SelectSeq(rest, LAMBDA y : y <= Head(values))
             above == SelectSeq(rest, LAMBDA y : y > Head(values))
         IN  below \o <<Head(values)>> \o above

\* math.Round(float64(a) / float64(b)) for a >= 0, b > 0
RoundDiv(a, b) == (2 * a + b) \div (2 * b)

\* fmt.Sprintf("[%v, %v)", lower, upper)
bucketLabel(lower, upper) == <<91>> \o FormatNum(lower) \o <<44, 32>> \o FormatNum(upper) \o <<41>>

\* The values toFloat64 converts among the groupBy values of the documents.
RECURSIVE groupByValues(_, _)
groupByValues(input, groupBy) ==
    IF Len(input) = 0 THEN <<>>
    ELSE (IF groupBy \in DOMAIN input[1] /\ toFloat64Ok(input[1][groupBy])
          THEN <<toFloat64(input[1][groupBy])>> ELSE <<>>)
         \o groupByValues(Tail(input), groupBy)

\* The boundaries at the quantile positions, then the maximum plus one.
quantileBoundaries(values, numBuckets) ==
    <<values[1]>>
    \o [i \in 1..(numBuckets - 1) |->
            LET pos == RoundDiv(i * (Len(values) - 1), numBuckets)
            IN  values[(IF pos >= Len(values) THEN Len(values) - 1 ELSE pos) + 1]]
    \o <<float64PlusOne(values[Len(values)])>>

\* "Remove duplicate boundaries": a boundary equal to the one before it is dropped.
RECURSIVE uniqueBoundaries(_)
uniqueBoundaries(boundaries) ==
    IF Len(boundaries) <= 1 THEN boundaries
    ELSE LET front == uniqueBoundaries(SubSeq(boundaries, 1, Len(boundaries) - 1))
         IN  IF boundaries[Len(boundaries)] = front[Len(front)] THEN front
             ELSE Append(front, boundaries[Len(boundaries)])

\* The bucket (1-based; 0 for none) the value is assigned to: the first whose
\* interval holds it, the last interval being closed.
autoBucketOf(boundaries, val) ==
    LET fits == {i \in 1..(Len(boundaries) - 1) :
                    /\ val >= boundaries[i]
                    /\ IF i = Len(boundaries) - 1 THEN val <= boundaries[i + 1]
                       ELSE val < boundaries[i + 1]}
    IN  IF fits = {} THEN 0 ELSE CHOOSE i \in fits : \A j \in fits : i <= j

\* The documents assigned to bucket i, in input order.
autoBucketDocs(input, groupBy, boundaries, i) ==
    SelectSeq(input, LAMBDA doc :
        /\ groupBy \in DOMAIN doc
        /\ toFloat64Ok(doc[groupBy])
        /\ autoBucketOf(boundaries, toFloat64(doc[groupBy])) = i)

validateBucketAutoStage(params) ==
    IF Get(params, "groupBy").k # "str" \/ Len(Get(params, "groupBy").v) = 0
    THEN "$bucketAuto stage requires a non-empty string 'groupBy' field"
    ELSE IF Len(cleanGroupByField(params["groupBy"].v)) = 0
    THEN "$bucketAuto stage 'groupBy' cannot be empty after cleaning"
    ELSE IF "buckets" \notin DOMAIN params THEN "$bucketAuto stage requires a 'buckets' field"
    ELSE IF ~toFloat64Ok(params["buckets"]) THEN "$bucketAuto stage 'buckets' must be a number"
    ELSE IF toFloat64(params["buckets"]) <= 0 THEN "$bucketAuto stage 'buckets' must be greater than 0"
    ELSE IF "output" \in DOMAIN params /\ params["output"].k # "doc"
    THEN "$bucketAuto stage 'output' must be an object"
    ELSE IF "output" \in DOMAIN params
            /\ \E key \in DOMAIN params["output"].v : params["output"].v[key].k # "doc"
    THEN "$bucketAuto stage 'output' expressions must be objects"
    ELSE IF "output" \in DOMAIN params
            /\ \E key \in DOMAIN params["output"].v : \E op \in DOMAIN params["output"].v[key].v :
                    op \notin {"$sum", "$avg", "$max", "$min"}
    THEN "unsupported aggregation operator in $bucketAuto output"
    ELSE IF "output" \in DOMAIN params
            /\ \E key \in DOMAIN params["output"].v : \E op \in DOMAIN params["output"].v[key].v :
                    params["output"].v[key].v[op].k # "str"
    THEN "operator requires a string field name"
    ELSE NoErr

\* The boundaries bucketAutoStage computes, duplicates removed.
autoBoundaries(input, params) ==
    uniqueBoundaries(
        quantileBoundaries(
            SortFloat64s(groupByValues(input, KeyOf(cleanGroupByField(params["groupBy"].v)))),
            toFloat64(params["buckets"])))

\* bucketAutoStage: [out, err].  Modelled: no output specification, and
\* output entries of the form {$sum: "1"}, the number of documents of the
\* bucket.
bucketAutoStage(input, params) ==
    LET groupBy == KeyOf(cleanGroupByField(params["groupBy"].v))
        values == SortFloat64s(groupByValues(input, groupBy))
        boundaries == autoBoundaries(input, params)
        output == asMap(Get(params, "output"))
    IN  IF validateBucketAutoStage(params) # NoErr
        THEN [out |-> <<>>, err |-> validateBucketAutoStage(params)]
        ELSE IF Len(values) = 0
        THEN [out |-> <<>>, err |-> "$bucketAuto stage found no valid 'groupBy' values"]
        ELSE [out |-> [i \in 1..(Len(boundaries) - 1) |->
                        ("_id" :> Str(bucketLabel(boundaries[i], boundaries[i + 1])))
                        @@ [key \in DOMAIN output |->
                                Num(Len(autoBucketDocs(input, groupBy, boundaries, i)))]],
              err |-> NoErr]

-----------------------------------------------------------------------------
(* $bucket                                                                 *)

\* value.(type) is float64 (or int): the only groupBy values bucketStage places.
IsNumber(val) == val.k = "num"

bucketOf_closedIntervals(boundaries, v) ==
    LET fits == {i \in 1..(Len(boundaries) - 1) : v >= boundaries[i] /\ v <= boundaries[i + 1]}
    IN  IF fits = {} THEN 0 ELSE CHOOSE i \in fits : \A j \in fits : i <= j

\* The bucket (1-based) in which the loop over the boundaries places v, 0
\* when it places it nowhere.
bucketOf(boundaries, v) ==
    LET fits == {i \in 1..(Len(boundaries) - 1) : v >= boundaries[i] /\ v < boundaries[i + 1]}
    IN  IF fits = {} THEN 0 ELSE CHOOSE i \in fits : \A j \in fits : i <= j

\* The index of the bucket a document is appended to: an interval, the
\* default bucket (Len(boundaries)) or none (0).
bucketIndex(doc, groupBy, boundaries, hasDefault) ==
    LET fallback == IF hasDefault THEN Len(boundaries) ELSE 0
    IN  IF groupBy \notin DOMAIN doc THEN fallback
        ELSE IF ~IsNumber(doc[groupBy]) THEN fallback
        ELSE IF bucketOf(boundaries, doc[groupBy].v) = 0 THEN fallback
        ELSE bucketOf(boundaries, doc[groupBy].v)

\* The loop over the output specification returns an error.
bucketOutputFails(output) ==
    \E key \in DOMAIN output :
        \/ output[key].k # "doc"
        \/ \E op \in DOMAIN output[key].v :
            \/ op # "$sum"
            \/ ~toFloat64Ok(output[key].v[op])
            \/ toFloat64(output[key].v[op]) # 1

\* The aggregations of one bucket: every output key whose expression holds
\* an operator gets the number of documents of the bucket.
bucketAggregations(output, docs) ==
    [key \in {k \in DOMAIN output : DOMAIN output[k].v # {}} |-> Num(Len(docs))]

\* bucketStage: [out, err]
bucketStage(input, params) ==
    LET groupBy == KeyOf(Get(params, "groupBy").v)
        boundaries == SortFloat64s([i \in 1..Len(params["boundaries"].v) |->
                                        params["boundaries"].v[i].v])
        hasDefault == Get(params, "default").k = "str"
        hasOutput == Get(params, "output").k = "doc"
        output == IF hasOutput THEN params["output"].v ELSE EmptyDoc
        labels == [i \in 1..(Len(boundaries) - 1) |->
                        bucketLabel(boundaries[i], boundaries[i + 1])]
                  \o (IF hasDefault THEN <<Spell["Other"]>> ELSE <<>>)
        docsOf(i) == SelectSeq(input, LAMBDA doc :
                        bucketIndex(doc, groupBy, boundaries, hasDefault) = i)
    IN  IF Get(params, "groupBy").k # "str"
        THEN [out |-> <<>>, err |-> "$bucket stage requires a string 'groupBy' field"]
        ELSE IF Get(params, "boundaries").k # "arr"
        THEN [out |-> <<>>, err |-> "$bucket stage requires an array of 'boundaries'"]
        ELSE IF \E i \in 1..Len(params["boundaries"].v) : ~IsNumber(params["boundaries"].v[i])
        THEN [out |-> <<>>, err |-> "$bucket stage 'boundaries' must be numeric"]
        ELSE IF Len(labels) > 0 /\ bucketOutputFails(output)
        THEN [out |-> <<>>, err |-> "invalid $bucket output"]
        ELSE [out |-> [i \in 1..Len(labels) |->
                        ("_id" :> Str(labels[i])) @@ bucketAggregations(output, docsOf(i))],
              err |-> NoErr]

validateBucketStage(params) ==
    IF "groupBy" \notin DOMAIN params THEN "$bucket stage requires a 'groupBy' field"
    ELSE IF "boundaries" \notin DOMAIN params THEN "$bucket stage requires 'boundaries' field"
    ELSE IF params["groupBy"].k # "str" \/ Len(params["groupBy"].v) = 0
    THEN "$bucket stage 'groupBy' must be a non-empty string"
    ELSE IF params["boundaries"].k # "arr" \/ Len(params["boundaries"].v) < 2
    THEN "$bucket stage 'boundaries' must be an array with at least two elements"
    ELSE IF \E i \in 1..Len(params["boundaries"].v) : ~IsNumber(params["boundaries"].v[i])
    THEN "$bucket stage 'boundaries' must contain numeric values"
    ELSE IF "default" \in DOMAIN params /\ params["default"].k # "str"
    THEN "$bucket stage 'default' must be a string"
    ELSE IF "output" \in DOMAIN params /\ params["output"].k # "doc"
    THEN "$bucket stage 'output' must be an object"
    ELSE NoErr

-----------------------------------------------------------------------------
(* $group                                                                  *)

\* A value of a dynamic type Go cannot hash or compare: a slice or a map.
\* Using one as a map key, or comparing two of the same type with ==, panics.
Unhashable(val) == val.k \in {"arr", "doc", "maps"}

\* getNestedField: nil for a missing field.
getNestedField(doc, field) == getNestedFieldExists(doc, field).val

\* The field a "$field" operand of an accumulator names.
operandField(val) == KeyOf(TrimDollar(val.v))

IsFieldRef(val) == val.k = "str" /\ HasDollar(val.v)

RECURSIVE SumOf(_)
SumOf(nums) == IF Len(nums) = 0 THEN 0 ELSE Head(nums) + SumOf(Tail(nums))

\* The values of the field over the documents that toFloat64 converts.
numbersOf(docs, field) ==
    LET vals == [i \in 1..Len(docs) |-> getNestedField(docs[i], field)]
        oks == SelectSeq(vals, toFloat64Ok)
    IN  [i \in 1..Len(oks) |-> toFloat64(oks[i])]

calculateSum(docs, val) ==
    IF IsFieldRef(val) THEN SumOf(numbersOf(docs, operandField(val)))
    ELSE IF toFloat64Ok(val) THEN Len(docs) * toFloat64(val)
    ELSE 0

\* A float64 that is no integer, as the fraction p/q in lowest terms.
Frac(p, q) == [k |-> "frac", v |-> <<p, q>>]

RECURSIVE Gcd(_, _)
Gcd(a, b) == IF b = 0 THEN a ELSE Gcd(b, a % b)

Abs(n) == IF n < 0 THEN 0 - n ELSE n

\* sum / float64(count), count > 0
Quotient(sum, count) ==
    IF sum % count = 0 THEN Num(sum \div count)
    ELSE Frac(sum \div Gcd(Abs(sum), count), count \div Gcd(Abs(sum), count))

calculateAverage_overAllDocs(docs, val) ==
    LET nums == IF IsFieldRef(val) THEN numbersOf(docs, operandField(val)) ELSE <<>>
    IN  IF Len(nums) = 0 THEN Num(0) ELSE Quotient(SumOf(nums), Len(docs))

calculateAverage(docs, val) ==
    LET nums == IF IsFieldRef(val) THEN numbersOf(docs, operandField(val)) ELSE <<>>
    IN  IF Len(nums) = 0 THEN Num(0) ELSE Quotient(SumOf(nums), Len(nums))

calculateMax(docs, val) ==
    LET nums == IF IsFieldRef(val) THEN numbersOf(docs, operandField(val)) ELSE <<>>
    IN  IF Len(nums) = 0 THEN 0
        ELSE CHOOSE m \in {nums[i] : i \in 1..Len(nums)} : \A i \in 1..Len(nums) : nums[i] <= m

calculateMin(docs, val) ==
    LET nums == IF IsFieldRef(val) THEN numbersOf(docs, operandField(val)) ELSE <<>>
    IN  IF Len(nums) = 0 THEN 0
        ELSE CHOOSE m \in {nums[i] : i \in 1..Len(nums)} : \A i \in 1..Len(nums) : nums[i] >= m

\* The non-nil values of the field, in document order.
nonNilValues(docs, field) ==
    SelectSeq([i \in 1..Len(docs) |-> getNestedField(docs[i], field)], LAMBDA v : v # Nil)

collectValues(docs, val) ==
    IF IsFieldRef(val) THEN Arr(nonNilValues(docs, operandField(val))) ELSE Nil

selectFirst(docs, val) ==
    IF IsFieldRef(val) /\ Len(docs) > 0 THEN getNestedField(docs[1], operandField(val)) ELSE Nil

selectLast(docs, val) ==
    IF IsFieldRef(val) /\ Len(docs) > 0
    THEN getNestedField(docs[Len(docs)], operandField(val)) ELSE Nil

\* addToSet puts every non-nil value in a map keyed by the value: it panics
\* on a slice or a map.
addToSetPanics(docs, val) ==
    /\ IsFieldRef(val)
    /\ \E i \in 1..Len(nonNilValues(docs, operandField(val))) :
            Unhashable(nonNilValues(docs, operandField(val))[i])

\* addToSet: the arrays it may return, the keys of its map in any order.
addToSet(docs, val) ==
    IF IsFieldRef(val)
    THEN LET vals == nonNilValues(docs, operandField(val))
             unique == {vals[i] : i \in 1..Len(vals)}
         IN  {Arr(o) : o \in Orders(unique)}
    ELSE {Nil}

\* The accumulators groupStage implements and models here, and those that
\* pass validation but that the switch of groupStage only logs.
\* The parameters {n, input} of $maxN, $minN, $firstN and $lastN: int(n),
\* the input string, and whether the accumulator goes on with them.
nParams(val) ==
    LET params == asMap(val)
        inputStr == IF Get(params, "input").k = "str" THEN params["input"].v ELSE <<>>
        n == toFloat64(Get(params, "n"))
    IN  [n |-> n, field |-> KeyOf(TrimDollar(inputStr)), ok |-> HasDollar(inputStr) /\ n >= 1]

Reverse(s) == [i \in 1..Len(s) |-> s[Len(s) + 1 - i]]

Numbers(values) == Arr([i \in 1..Len(values) |-> Num(values[i])])

\* maxN: the numeric values sorted descending, the first n of them.
maxN(docs, val) ==
    LET allVals == Reverse(SortFloat64s(numbersOf(docs, nParams(val).field)))
    IN  IF ~nParams(val).ok THEN Arr(<<>>)
        ELSE Numbers(SubSeq(allVals, 1, Min(nParams(val).n, Len(allVals))))

\* minN: the numeric values sorted ascending, the first n of them.
minN(docs, val) ==
    LET allVals == SortFloat64s(numbersOf(docs, nParams(val).field))
    IN  IF ~nParams(val).ok THEN Arr(<<>>)
        ELSE Numbers(SubSeq(allVals, 1, Min(nParams(val).n, Len(allVals))))

\* firstN: the first n values that are not nil, in input order.
firstN(docs, val) ==
    LET allVals == nonNilValues(docs, nParams(val).field)
    IN  IF ~nParams(val).ok THEN Arr(<<>>)
        ELSE Arr(SubSeq(allVals, 1, Min(nParams(val).n, Len(allVals))))

\* lastN: the last n values that are not nil, in input order.
lastN(docs, val) ==
    LET allVals == nonNilValues(docs, nParams(val).field)
    IN  IF ~nParams(val).ok THEN Arr(<<>>)
        ELSE Arr(SubSeq(allVals, Max(1, Len(allVals) - nParams(val).n + 1), Len(allVals)))

ModelledAccumulators ==
    {"$sum", "$avg", "$max", "$min", "$push", "$first", "$last", "$addToSet", "$count",
     "$maxN", "$minN", "$firstN", "$lastN"}
LoggedAccumulators == {"$percentile", "$median", "$variancePop", "$varianceSamp"}

\* The values one accumulator may assign to its field.
accumulate(op, docs, val) ==
    CASE op = "$sum" -> {Num(calculateSum(docs, val))}
      [] op = "$avg" -> {calculateAverage(docs, val)}
      [] op = "$max" -> {Num(calculateMax(docs, val))}
      [] op = "$min" -> {Num(calculateMin(docs, val))}
      [] op = "$push" -> {collectValues(docs, val)}
      [] op = "$first" -> {selectFirst(docs, val)}
      [] op = "$last" -> {selectLast(docs, val)}
      [] op = "$addToSet" -> addToSet(docs, val)
      [] op = "$count" -> {Num(Len(docs))}
      [] op = "$maxN" -> {maxN(docs, val)}
      [] op = "$minN" -> {minN(docs, val)}
      [] op = "$firstN" -> {firstN(docs, val)}
      [] op = "$lastN" -> {lastN(docs, val)}
      [] op \in LoggedAccumulators -> {}

\* The values a field of the group result may end with: the accumulator
\* enumerated last assigns it.
fieldOutcomes(docs, expr) == UNION {accumulate(op, docs, expr[op]) : op \in DOMAIN expr}

\* The aggregation expressions: the entries other than _id whose value is an object.
aggExpressions(params) ==
    [k \in {key \in DOMAIN params : key # "_id" /\ params[key].k = "doc"} |-> params[k].v]

\* The field the documents are grouped by ("" when _id is no "$field" string).
groupIDField(params) ==
    IF "_id" \in DOMAIN params /\ IsFieldRef(params["_id"])
    THEN KeyOf(TrimDollar(params["_id"].v))
    ELSE ""

groupValue(doc, params) == Get(doc, groupIDField(params))

groupDocs(input, params, value) == SelectSeq(input, LAMBDA doc : groupValue(doc, params) = value)

\* The results a group may produce, over the fields of aggs not yet assigned.
RECURSIVE groupResults(_, _, _)
groupResults(fields, docs, aggs) ==
    IF fields = {} THEN {EmptyDoc}
    ELSE LET fieldName == CHOOSE f \in fields : TRUE
             rest == groupResults(fields \ {fieldName}, docs, aggs)
             vals == fieldOutcomes(docs, aggs[fieldName])
         IN  IF vals = {} THEN rest
             ELSE {(fieldName :> v) @@ r : v \in vals, r \in rest}

\* The result sequences for the groups enumerated in the order o[i..].
RECURSIVE groupsFrom(_, _, _, _)
groupsFrom(input, params, o, i) ==
    IF i > Len(o) THEN {<<>>}
    ELSE LET docs == groupDocs(input, params, o[i])
             aggs == aggExpressions(params)
         IN  {<<("_id" :> o[i]) @@ r>> \o rest :
                r \in groupResults(DOMAIN aggs, docs, aggs),
                rest \in groupsFrom(input, params, o, i + 1)}

\* groupStage panics: a group value or an $addToSet value is a slice or a map.
groupStagePanics(input, params) ==
    \/ \E i \in 1..Len(input) : Unhashable(groupValue(input[i], params))
    \/ \E k \in DOMAIN aggExpressions(params) :
            /\ "$addToSet" \in DOMAIN params[k].v
            /\ addToSetPanics(input, params[k].v["$addToSet"])

\* groupStage: the results it may return, the groups in any order.
groupStage(input, params) ==
    UNION {groupsFrom(input, params, o, 1) :
            o \in Orders({groupValue(input[i], params) : i \in 1..Len(input)})}

isValidGroupOperator(op) ==
    op \in {"$sum", "$avg", "$min", "$max", "$push", "$addToSet", "$first", "$last",
            "$stdDevPop", "$stdDevSamp", "$count", "$mergeObjects",
            "$percentile", "$median", "$variancePop", "$varianceSamp"}

validateGroupStage(params) ==
    IF "_id" \notin DOMAIN params THEN "$group is missing required field: _id"
    ELSE IF \E field \in DOMAIN params : field # "_id" /\ params[field].k # "doc"
    THEN "$group field must be an aggregator object"
    ELSE IF \E field \in DOMAIN params : field # "_id" /\
                \E op \in DOMAIN params[field].v : ~isValidGroupOperator(op)
    THEN "$group aggregator is not supported"
    ELSE NoErr

-----------------------------------------------------------------------------
(* $sortByCount                                                            *)

\* The value documents are counted by: the field, nil when missing.
countValue(doc, params) == Get(doc, KeyOf(TrimDollar(params["path"].v)))

sortByCountStagePanics(input, params) ==
    /\ Get(params, "path").k = "str" /\ Len(params["path"].v) > 0
    /\ \E i \in 1..Len(input) : Unhashable(countValue(input[i], params))

\* sortByCountStage: the results it may return, [out, err]: the groups of
\* the count map in any order that sort.Slice may leave, counts descending.
sortByCountStage(input, params) ==
    IF Get(params, "path").k # "str" \/ Len(params["path"].v) = 0
    THEN {[out |-> <<>>, err |-> "$sortByCount requires a non-empty 'path' parameter"]}
    ELSE LET keys == {countValue(input[i], params) : i \in 1..Len(input)}
             count(key) == Len(SelectSeq(input, LAMBDA doc : countValue(doc, params) = key))
         IN  {[out |-> [i \in 1..Len(o) |-> ("_id" :> o[i]) @@ ("count" :> Num(count(o[i])))],
               err |-> NoErr] :
                o \in {oo \in Orders(keys) :
                        \A i \in 1..(Len(oo) - 1) : count(oo[i]) >= count(oo[i + 1])}}

validateSortByCountStage(params) ==
    IF "path" \notin DOMAIN params THEN "$sortByCount stage requires a 'path' parameter"
    ELSE IF params["path"].k # "str" \/ IsBlank(params["path"].v)
    THEN "$sortByCount 'path' parameter must be a non-empty string"
    ELSE NoErr

-----------------------------------------------------------------------------
(* Documents a stage writes to                                             *)

\* A map a stage writes to: its entries, and whether it is the very map of
\* the input document (shared) or one allocated by the stage.
NewMap(entries) == [map |-> entries, shared |-> FALSE]

\* target[key] = val and delete(target, key)
Store(target, key, val) == [target EXCEPT !.map = Put(target.map, key, val)]
Delete(target, key) ==
    [target EXCEPT !.map = [k \in DOMAIN target.map \ {key} |-> target.map[k]]]

\* What the input document holds once the stage has written to target.
Leaves(doc, target) == IF target.shared THEN target.map ELSE doc

cloneDocument_sameMap(original) == [map |-> original, shared |-> TRUE]

\* cloneDocument: a new map with the entries of original.
cloneDocument(original) == NewMap(original)

\* deepCopyDocument: a new map with the entries of doc.
deepCopyDocument(doc) == NewMap(doc)

-----------------------------------------------------------------------------
(* $lookup                                                                 *)

\* validateLookupParams: the four parameters are non-empty strings.
validateLookupParams(params) ==
    \A field \in {"from", "localField", "foreignField", "as"} :
        Get(params, field).k = "str" /\ Len(params[field].v) > 0

\* foreignDoc[foreignField] == localValue on interface values: values of
\* different dynamic types are unequal; two slices or two maps panic.
equalPanics(a, b) == a.k = b.k /\ Unhashable(a)

\* findMatchingDocuments: the copies of the matching foreign documents.
findMatchingDocuments(doc, foreignCollection, localField, foreignField) ==
    IF localField \notin DOMAIN doc THEN <<>>
    ELSE SelectSeq(foreignCollection,
                   LAMBDA foreignDoc : Get(foreignDoc, foreignField) = doc[localField])

findMatchingDocumentsPanics(doc, foreignCollection, localField, foreignField) ==
    /\ localField \in DOMAIN doc
    /\ \E i \in 1..Len(foreignCollection) :
            equalPanics(Get(foreignCollection[i], foreignField), doc[localField])

\* The collection lookupStage reads, when its parameters are accepted.
lookupFrom(params) == KeyOf(params["from"].v)

lookupStagePanics(input, foreignCollection, params) ==
    /\ validateLookupParams(params)
    /\ \E i \in 1..Len(input) :
            findMatchingDocumentsPanics(input[i], foreignCollection,
                KeyOf(params["localField"].v), KeyOf(params["foreignField"].v))

\* lookupStage over the foreign collection it fetched.
\* The copy of doc that lookupStage appends, with the matches stored under as.
lookupDocument(doc, foreignCollection, params) ==
    Store(deepCopyDocument(doc), KeyOf(params["as"].v),
          Maps(findMatchingDocuments(doc, foreignCollection,
                  KeyOf(params["localField"].v), KeyOf(params["foreignField"].v))))

lookupStage(input, foreignCollection, params) ==
    IF ~validateLookupParams(params) THEN input
    ELSE [i \in 1..Len(input) |-> lookupDocument(input[i], foreignCollection, params).map]

\* The input documents once lookupStage has returned.
lookupStageLeaves(input, foreignCollection, params) ==
    IF ~validateLookupParams(params) THEN input
    ELSE [i \in 1..Len(input) |->
            Leaves(input[i], lookupDocument(input[i], foreignCollection, params))]

validateLookupStage(params) ==
    IF \E field \in {"from", "localField", "foreignField", "as"} : field \notin DOMAIN params
    THEN "$lookup is missing required field"
    ELSE IF \E field \in {"from", "localField", "foreignField", "as"} : params[field].k # "str"
    THEN "$lookup field must be a string"
    ELSE NoErr

-----------------------------------------------------------------------------
(* $addFields                                                              *)

\* evaluateExpression returns an error: an object that does not hold
\* exactly one of $concat and $toString, an array, or a $concat whose
\* operand is no array or has a part that fails.
RECURSIVE evaluateExpressionFails(_)
evaluateExpressionFails(expr) ==
    \/ expr.k = "doc" /\ Cardinality(DOMAIN expr.v) # 1
    \/ expr.k = "doc" /\ \E op \in DOMAIN expr.v : op \notin {"$concat", "$toString"}
    \/ expr.k \in {"arr", "maps"}
    \/ /\ expr.k = "doc"
       /\ DOMAIN expr.v = {"$concat"}
       /\ \/ expr.v["$concat"].k # "arr"
          \/ \E i \in 1..Len(expr.v["$concat"].v) :
                evaluateExpressionFails(expr.v["$concat"].v[i])
    \/ /\ expr.k = "doc"
       /\ DOMAIN expr.v = {"$toString"}
       /\ evaluateExpressionFails(expr.v["$toString"])

\* evaluateExpression for a field reference, a literal or a $concat, whose
\* parts are formatted with %v, nil as the empty string.
RECURSIVE evaluateExpression(_, _)
evaluateExpression(doc, expr) ==
    LET RECURSIVE exprConcat(_)
        exprConcat(parts) ==
            IF Len(parts) = 0 THEN <<>>
            ELSE LET str == evaluateExpression(doc, Head(parts))
                 IN  (IF str = Nil THEN <<>> ELSE Sprintf(str)) \o exprConcat(Tail(parts))
    IN  CASE expr.k = "str" /\ HasDollar(expr.v) -> Get(doc, KeyOf(Tail(expr.v)))
          [] expr.k \in {"str", "num", "bool", "null"} -> expr
          [] expr.k = "doc" /\ DOMAIN expr.v = {"$concat"} ->
                Str(exprConcat(expr.v["$concat"].v))

\* The document after the assignments doc[field] = value for the fields in
\* the order o[p..], each expression reading the document as it is by then.
RECURSIVE setFieldsFrom(_, _, _, _)
setFieldsFrom(doc, params, o, p) ==
    IF p > Len(o) THEN doc
    ELSE setFieldsFrom(Put(doc, o[p], evaluateExpression(doc, params[o[p]])), params, o, p + 1)

\* The documents one input document may become, the fields of params
\* enumerated in any order.
setFields(doc, params) == {setFieldsFrom(doc, params, o, 1) : o \in Orders(DOMAIN params)}

validateAddFieldsStage(params) ==
    IF DOMAIN params = {} THEN "$addFields/$set stage must not be empty"
    ELSE IF \E fieldName \in DOMAIN params : IsBlank(Spell[fieldName])
    THEN "$addFields/$set field name must be a non-empty string"
    ELSE IF \E fieldName \in DOMAIN params :
                params[fieldName].k = "str" /\ params[fieldName].v = <<36>>
    THEN "$addFields/$set stage has an invalid field reference"
    ELSE IF \E fieldName \in DOMAIN params : params[fieldName].k = "null"
    THEN "$addFields/$set stage has unsupported expression type"
    ELSE NoErr

\* addFieldsStage: the results it may return, [out, err]; the documents are
\* updated in place, in the slice it was given.
addFieldsStage(input, params) ==
    IF validateAddFieldsStage(params) # NoErr
    THEN {[out |-> <<>>, err |-> "validation error in $addFields stage"]}
    ELSE IF \E field \in DOMAIN params : evaluateExpressionFails(params[field])
    THEN {[out |-> <<>>, err |-> "error evaluating expression for field"]}
    ELSE {[out |-> out, err |-> NoErr] :
            out \in {docs \in [1..Len(input) -> UNION {setFields(input[i], params) : i \in 1..Len(input)}] :
                        \A i \in 1..Len(input) : docs[i] \in setFields(input[i], params)}}

-----------------------------------------------------------------------------
(* $unwind                                                                 *)

\* The element as unwindStage stores it: a map as it is, anything else
\* wrapped under the key "value".
unwoundItem(item) == IF item.k = "doc" THEN item ELSE Doc(("value" :> item))

\* The documents unwindStage appends for one input document.
\* The maps unwindDocument appends for one input document: the document
\* itself when it is preserved, otherwise one clone per element.
unwindDocument(doc, path, preserve, indexField) ==
    LET itself == [map |-> doc, shared |-> TRUE]
        withIndex(newDoc, at) ==
            IF indexField # "" THEN Store(newDoc, indexField, Num(at - 1)) ELSE newDoc
    IN  IF path \notin DOMAIN doc \/ doc[path] = Nil
        THEN (IF preserve THEN <<itself>> ELSE <<>>)
        ELSE CASE doc[path].k = "maps" ->
                    IF Len(doc[path].v) = 0 THEN (IF preserve THEN <<itself>> ELSE <<>>)
                    ELSE [at \in 1..Len(doc[path].v) |->
                            withIndex(Store(cloneDocument(doc), path, Doc(doc[path].v[at])), at)]
               [] doc[path].k = "arr" ->
                    IF Len(doc[path].v) = 0 THEN (IF preserve THEN <<itself>> ELSE <<>>)
                    ELSE [at \in 1..Len(doc[path].v) |->
                            withIndex(Store(cloneDocument(doc), path, unwoundItem(doc[path].v[at])), at)]
               [] OTHER -> <<Store(cloneDocument(doc), path, doc[path])>>

RECURSIVE unwindFrom(_, _, _, _, _)
unwindFrom(input, i, path, preserve, indexField) ==
    IF i > Len(input) THEN <<>>
    ELSE LET newDocs == unwindDocument(input[i], path, preserve, indexField)
         IN  [n \in 1..Len(newDocs) |-> newDocs[n].map]
             \o unwindFrom(input, i + 1, path, preserve, indexField)

unwindPath(params) == KeyOf(TrimDollar(params["path"].v))

unwindPreserve(params) == Get(params, "preserveNullAndEmptyArrays") = Bool(TRUE)

unwindIndexField(params) ==
    IF Get(params, "includeArrayIndex").k = "str" /\ Len(params["includeArrayIndex"].v) > 0
    THEN KeyOf(params["includeArrayIndex"].v) ELSE ""

unwindStage(input, params) ==
    IF Get(params, "path").k # "str" \/ Len(params["path"].v) = 0 THEN input
    ELSE unwindFrom(input, 1, unwindPath(params), unwindPreserve(params),
                    unwindIndexField(params))

\* The input documents once unwindStage has returned.
unwindStageLeaves(input, params) ==
    IF Get(params, "path").k # "str" \/ Len(params["path"].v) = 0 THEN input
    ELSE [i \in 1..Len(input) |->
            LET newDocs == unwindDocument(input[i], unwindPath(params),
                                          unwindPreserve(params), unwindIndexField(params))
            IN  IF Len(newDocs) = 0 THEN input[i]
                ELSE Leaves(input[i], newDocs[Len(newDocs)])]

validateUnwindStage(params) ==
    IF "path" \notin DOMAIN params THEN "$unwind is missing 'path' field"
    ELSE IF params["path"].k # "str" \/ Len(params["path"].v) = 0
    THEN "$unwind 'path' must be a non-empty string"
    ELSE IF "preserveNullAndEmptyArrays" \in DOMAIN params
            /\ params["preserveNullAndEmptyArrays"].k # "bool"
    THEN "$unwind 'preserveNullAndEmptyArrays' must be a boolean if set"
    ELSE IF "includeArrayIndex" \in DOMAIN params /\ params["includeArrayIndex"].k # "str"
    THEN "$unwind 'includeArrayIndex' must be a string if set"
    ELSE NoErr

-----------------------------------------------------------------------------
(* $unset                                                                  *)

\* The first element of a path array that is not a non-empty string (0 when
\* there is none).
firstBadName(names) ==
    LET bad == {i \in 1..Len(names) : names[i].k # "str" \/ Len(names[i].v) = 0}
    IN  IF bad = {} THEN 0 ELSE CHOOSE i \in bad : \A j \in bad : i <= j

\* validateUnsetStage for a parameter object: [fields, err], fields being
\* the names to delete.
validateUnsetStage(params) ==
    IF "path" \in DOMAIN params
    THEN CASE params["path"].k = "str" ->
                IF Len(params["path"].v) = 0
                THEN [fields |-> {}, err |-> "$unset stage contains an empty field name in path"]
                ELSE [fields |-> {KeyOf(params["path"].v)}, err |-> NoErr]
           [] params["path"].k = "arr" ->
                LET names == params["path"].v
                    bad == firstBadName(names)
                IN  IF bad = 0
                    THEN [fields |-> {KeyOf(names[i].v) : i \in 1..Len(names)}, err |-> NoErr]
                    ELSE IF names[bad].k # "str"
                    THEN [fields |-> {},
                          err |-> "$unset stage path array contains a non-string field"]
                    ELSE [fields |-> {},
                          err |-> "$unset stage contains an empty field name in path"]
           [] OTHER ->
                [fields |-> {}, err |-> "$unset stage 'path' must be a string or array of strings"]
    ELSE IF "" \in DOMAIN params
    THEN [fields |-> {}, err |-> "$unset stage contains an empty field name"]
    ELSE [fields |-> DOMAIN params, err |-> NoErr]

\* The shallow copy of doc that unsetStage builds, the fields deleted.
unsetDocument(doc, fields) ==
    LET newDoc == NewMap(doc)
    IN  [newDoc EXCEPT !.map = [k \in DOMAIN doc \ fields |-> doc[k]]]

\* unsetStage: [out, err, input], input being the caller's documents when
\* it returns.
unsetStage(input, params) ==
    LET valid == validateUnsetStage(params)
    IN  IF valid.err # NoErr THEN [out |-> <<>>, err |-> valid.err, input |-> input]
        ELSE [out |-> [i \in 1..Len(input) |-> unsetDocument(input[i], valid.fields).map],
              err |-> NoErr,
              input |-> [i \in 1..Len(input) |->
                            Leaves(input[i], unsetDocument(input[i], valid.fields))]]

-----------------------------------------------------------------------------
(* $project                                                                *)

\* determineProjectionMode: [mode, err]
determineProjectionMode(params) ==
    LET numeric == {field \in DOMAIN params \ {"_id"} : params[field].k = "num"}
        hasInclusion == \E field \in numeric : params[field].v = 1
        hasExclusion == \E field \in numeric : params[field].v = 0
    IN  IF hasInclusion /\ hasExclusion
        THEN [mode |-> "",
              err |-> "cannot mix inclusion and exclusion in the same projection except for _id"]
        ELSE IF hasInclusion THEN [mode |-> "include", err |-> NoErr]
        ELSE [mode |-> "exclude", err |-> NoErr]

\* resolveField: nil for a missing field.
resolveField(doc, path) == NestedFrom(doc, SplitDot(path, <<>>), 1).val

\* The operators evaluateExpression of $project has a case for.
ProjectOperators ==
    {"$concat", "$substr", "$dateToString", "$add", "$subtract", "$multiply", "$divide",
     "$mod", "$and", "$or", "$not", "$cond"}

\* The strings of resolved, concatenated.
RECURSIVE ConcatStrings(_)
ConcatStrings(resolved) ==
    IF Len(resolved) = 0 THEN <<>>
    ELSE (IF Head(resolved).k = "str" THEN Head(resolved).v ELSE <<>>)
         \o ConcatStrings(Tail(resolved))

\* The sum of the numbers toFloat64 makes of resolved, 0 for what it rejects.
RECURSIVE AddNumbers(_)
AddNumbers(resolved) ==
    IF Len(resolved) = 0 THEN 0
    ELSE (IF toFloat64Ok(Head(resolved)) THEN toFloat64(Head(resolved)) ELSE 0)
         + AddNumbers(Tail(resolved))

\* toBool: a bool is itself, a number is true unless it is zero, a string
\* unless it is empty; nil and every other value are false.
toBool(val) ==
    CASE val.k = "bool" -> val.v
      [] val.k = "num" -> val.v # 0
      [] val.k = "frac" -> TRUE
      [] val.k = "null" -> FALSE
      [] val.k = "str" -> val.v # <<>>
      [] OTHER -> FALSE

\* The package-level evaluateExpression that $project uses.  Modelled: field
\* references, literals, arrays, and objects of one operator among $concat,
\* $add, $and, $or, $not, $cond and the operators it has no case for.
RECURSIVE evaluateProjectExpression(_, _)
evaluateProjectExpression(doc, expr) ==
    LET each(items) == [i \in 1..Len(items) |-> evaluateProjectExpression(doc, items[i])]
    IN  CASE expr.k = "str" /\ HasDollar(expr.v) -> resolveField(doc, TrimDollar(expr.v))
          [] expr.k = "str" /\ ~HasDollar(expr.v) -> expr
          [] expr.k \in {"num", "bool", "null"} -> expr
          [] expr.k = "arr" -> Arr(each(expr.v))
          [] expr.k = "doc" /\ DOMAIN expr.v = {} -> Nil
          [] expr.k = "doc" /\ DOMAIN expr.v = {"$concat"} ->
                IF expr.v["$concat"].k # "arr" THEN Str(<<>>)
                ELSE Str(ConcatStrings(each(expr.v["$concat"].v)))
          [] expr.k = "doc" /\ DOMAIN expr.v = {"$add"} ->
                IF expr.v["$add"].k # "arr" THEN Nil
                ELSE Num(AddNumbers(each(expr.v["$add"].v)))
          [] expr.k = "doc" /\ DOMAIN expr.v = {"$and"} ->
                IF expr.v["$and"].k # "arr" THEN Bool(FALSE)
                ELSE Bool(\A i \in 1..Len(expr.v["$and"].v) : toBool(each(expr.v["$and"].v)[i]))
          [] expr.k = "doc" /\ DOMAIN expr.v = {"$or"} ->
                IF expr.v["$or"].k # "arr" THEN Bool(FALSE)
                ELSE Bool(\E i \in 1..Len(expr.v["$or"].v) : toBool(each(expr.v["$or"].v)[i]))
          [] expr.k = "doc" /\ DOMAIN expr.v = {"$not"} ->
                Bool(~toBool(evaluateProjectExpression(doc, expr.v["$not"])))
          [] expr.k = "doc" /\ DOMAIN expr.v = {"$cond"} ->
                LET condVal == expr.v["$cond"]
                IN  CASE condVal.k = "doc" ->
                            IF toBool(evaluateProjectExpression(doc, Get(condVal.v, "if")))
                            THEN evaluateProjectExpression(doc, Get(condVal.v, "then"))
                            ELSE evaluateProjectExpression(doc, Get(condVal.v, "else"))
                      [] condVal.k = "arr" /\ Len(condVal.v) = 3 ->
                            IF toBool(evaluateProjectExpression(doc, condVal.v[1]))
                            THEN evaluateProjectExpression(doc, condVal.v[2])
                            ELSE evaluateProjectExpression(doc, condVal.v[3])
                      [] OTHER -> Nil
          [] expr.k = "doc" /\ Cardinality(DOMAIN expr.v) = 1
             /\ DOMAIN expr.v \cap ProjectOperators = {} -> Nil

\* The loop over params for one document: what one field specification
\* does to projectedDoc.
projectField(projectedDoc, doc, field, rawSpec, mode) ==
    IF rawSpec.k = "num"
    THEN IF rawSpec.v = 1 /\ mode = "include"
         THEN (IF field \in DOMAIN doc THEN Store(projectedDoc, field, doc[field])
               ELSE projectedDoc)
         ELSE IF rawSpec.v = 0 /\ mode = "exclude" THEN Delete(projectedDoc, field)
         ELSE projectedDoc
    ELSE Store(projectedDoc, field, evaluateProjectExpression(doc, rawSpec))

\* Every field specification applied; each writes its own key of
\* projectedDoc and reads doc, so the order of the loop makes no difference.
RECURSIVE projectFields(_, _, _, _, _)
projectFields(projectedDoc, doc, params, fields, mode) ==
    IF fields = {} THEN projectedDoc
    ELSE LET field == CHOOSE f \in fields : TRUE
         IN  projectFields(projectField(projectedDoc, doc, field, params[field], mode),
                           doc, params, fields \ {field}, mode)

\* The map projectStage appends for one document.
projectDocument(doc, params, mode) ==
    LET start == IF mode = "include" THEN NewMap(EmptyDoc) ELSE cloneDocument(doc)
        projectedDoc == projectFields(start, doc, params, DOMAIN params, mode)
    IN  IF "_id" \notin DOMAIN params /\ mode = "include" /\ "_id" \in DOMAIN doc
        THEN Store(projectedDoc, "_id", doc["_id"])
        ELSE projectedDoc

\* projectStage: the input itself when the mode cannot be determined.
projectStage(input, params) ==
    IF determineProjectionMode(params).err # NoErr THEN input
    ELSE [i \in 1..Len(input) |->
            projectDocument(input[i], params, determineProjectionMode(params).mode).map]

\* The input documents once projectStage has returned.
projectStageLeaves(input, params) ==
    IF determineProjectionMode(params).err # NoErr THEN input
    ELSE [i \in 1..Len(input) |->
            Leaves(input[i],
                   projectDocument(input[i], params, determineProjectionMode(params).mode))]

validateProjectStage(params) ==
    IF DOMAIN params = {} THEN "$project stage must not be empty"
    ELSE IF \E field \in DOMAIN params :
                CASE params[field].k = "num" -> params[field].v \notin {0, 1}
                  [] params[field].k = "str" -> ~HasDollar(params[field].v)
                  [] params[field].k \in {"bool", "doc"} -> FALSE
                  [] OTHER -> TRUE
    THEN "$project: invalid field specification"
    ELSE NoErr

-----------------------------------------------------------------------------
(* $facet: validation                                                      *)

RECURSIVE validateStage(_, _)

\* The error of one stage of a facet's pipeline.
facetStageError(stageAny) ==
    IF stageAny.k # "doc" THEN "$facet: pipeline stage must be an object"
    ELSE IF Cardinality(DOMAIN stageAny.v) # 1
    THEN "$facet: pipeline stage must have exactly one operator"
    ELSE IF \E op \in DOMAIN stageAny.v : validateStage(op, asMap(stageAny.v[op])) # NoErr
    THEN "$facet: sub-stage invalid"
    ELSE NoErr

validateFacetStage(params) ==
    IF \E facetName \in DOMAIN params : params[facetName].k # "arr"
    THEN "$facet: each value must be an array of pipeline stages"
    ELSE IF \E facetName \in DOMAIN params : \E i \in 1..Len(params[facetName].v) :
                facetStageError(params[facetName].v[i]) # NoErr
    THEN "$facet: invalid pipeline stage"
    ELSE NoErr

-----------------------------------------------------------------------------
(* The pipeline parser and validator                                       *)

validateStage(stageName, params) ==
    CASE stageName = "$limit" -> validateLimitStage(params)
      [] stageName = "$skip" -> validateSkipStage(params)
      [] stageName = "$sort" -> validateSortStage(params)
      [] stageName = "$match" -> validateMatchStage(params)
      [] stageName = "$count" -> validateCountStage(params)
      [] stageName = "$sample" -> validateSampleStage(params)
      [] stageName = "$bucketAuto" -> validateBucketAutoStage(params)
      [] stageName = "$bucket" -> validateBucketStage(params)
      [] stageName = "$group" -> validateGroupStage(params)
      [] stageName = "$lookup" -> validateLookupStage(params)
      [] stageName = "$unwind" -> validateUnwindStage(params)
      [] stageName = "$unset" -> validateUnsetStage(params).err
      [] stageName = "$project" -> validateProjectStage(params)
      [] stageName = "$facet" -> validateFacetStage(params)
      [] stageName \in {"$addFields", "$set"} -> validateAddFieldsStage(params)
      [] stageName = "$sortByCount" -> validateSortByCountStage(params)
      [] OTHER -> "unsupported aggregation stage"

\* The switch on the type of a stage's value: an object is the params map, a
\* string becomes {"path": v}, a number or bool {"value": v}.
ParamsKindOk(val) == val.k \in {"doc", "str", "num", "bool"}

paramsMap(val) ==
    CASE val.k = "doc" -> val.v
      [] val.k = "str" -> ("path" :> val)
      [] val.k \in {"num", "bool"} -> ("value" :> val)
      [] OTHER -> EmptyDoc

\* The error, if any, that the parser's loop body returns for one entry of a
\* stage object.
StageError(stageName, val) ==
    IF ~ParamsKindOk(val) THEN "invalid parameters for stage"
    ELSE validateStage(stageName, paramsMap(val))

\* The stages the parser appends for the stage objects q[i..], for every order
\* in which the keys of a stage object may be enumerated.
RECURSIVE StagesFrom(_, _)
StagesFrom(q, i) ==
    IF i > Len(q) THEN {<<>>}
    ELSE {[j \in 1..Len(o) |-> [Stage |-> o[j], Params |-> paramsMap(q[i][o[j]])]] \o rest :
            o \in Orders(DOMAIN q[i]), rest \in StagesFrom(q, i + 1)}

\* Lazy validation: only the first stage object is validated before the run.
ParseError_firstStageOnly(q) ==
    IF Len(q) > 0 /\ \E name \in DOMAIN q[1] : StageError(name, q[1][name]) # NoErr
    THEN "error parsing aggregation stages"
    ELSE NoErr

\* parseAggregationStagesJSON: the error it returns, NoErr when every stage
\* passes validateStage.
ParseError(q) ==
    IF \E i \in 1..Len(q) : \E name \in DOMAIN q[i] : StageError(name, q[i][name]) # NoErr
    THEN "error parsing aggregation stages"
    ELSE NoErr

-----------------------------------------------------------------------------
(* Query                                                                   *)

\* db.Collection: a prefix scan; a collection that does not exist is empty.
Collection(name) == IF name \in DOMAIN db THEN db[name] ELSE <<>>

Return(docs, err) ==
    /\ pc' = "done"
    /\ ret' = [docs |-> docs, err |-> err]

\* Query, lines 23-26: parse and validate the whole pipeline.
Parse ==
    /\ pc = "parse"
    /\ IF ParseError(query) # NoErr
       THEN /\ Return(<<>>, ParseError(query))
            /\ UNCHANGED stages
       ELSE /\ stages' \in StagesFrom(query, 1)
            /\ pc' = "fetch"
            /\ UNCHANGED ret
    /\ UNCHANGED <<db, collectionName, query, idx, stageInput, ran, reads, prev>>

\* Query, lines 30-33, and the loop's exit when there is no stage.
Fetch ==
    /\ pc = "fetch"
    /\ reads' = Append(reads, collectionName)
    /\ stageInput' = Collection(collectionName)
    /\ IF Len(Collection(collectionName)) = 0 THEN Return(<<>>, NoErr)
       ELSE IF Len(stages) = 0 THEN Return(Collection(collectionName), NoErr)
       ELSE pc' = "run" /\ UNCHANGED ret
    /\ idx' = 1
    /\ UNCHANGED <<db, collectionName, query, stages, ran, prev>>

Dispatch(stageName) ==
    /\ pc = "run"
    /\ stages[idx].Stage = stageName

ContinueAfter_noBreak(out, after) ==
    /\ stageInput' = out
    /\ ran' = Append(ran, [stage |-> stages[idx].Stage, in |-> stageInput, out |-> out,
                           err |-> NoErr, after |-> after])
    /\ IF idx = Len(stages)
       THEN Return(out, NoErr) /\ UNCHANGED idx
       ELSE pc' = "run" /\ idx' = idx + 1 /\ UNCHANGED ret
    /\ UNCHANGED <<db, collectionName, query, stages, reads, prev>>

\* The end of the loop body after a stage executor returned out without
\* error, leaving after in the slice it was given: the break on an empty
\* sequence, the next stage, or the final return.
ContinueAfter(out, after) ==
    /\ stageInput' = out
    /\ ran' = Append(ran, [stage |-> stages[idx].Stage, in |-> stageInput, out |-> out,
                           err |-> NoErr, after |-> after])
    /\ IF Len(out) = 0 \/ idx = Len(stages)
       THEN Return(out, NoErr) /\ UNCHANGED idx
       ELSE pc' = "run" /\ idx' = idx + 1 /\ UNCHANGED ret
    /\ UNCHANGED <<db, collectionName, query, stages, reads, prev>>

Continue(out) == ContinueAfter(out, stageInput)

\* A stage executor returned an error, which Query wraps and returns.
Abort(err) ==
    /\ Return(<<>>, err)
    /\ ran' = Append(ran, [stage |-> stages[idx].Stage, in |-> stageInput, out |-> <<>>,
                           err |-> err, after |-> stageInput])
    /\ UNCHANGED <<db, collectionName, query, stages, idx, stageInput, reads, prev>>

\* A stage executor panicked: the goroutine calling Query crashes.
Panic ==
    /\ pc' = "panic"
    /\ ran' = Append(ran, [stage |-> stages[idx].Stage, in |-> stageInput, out |-> <<>>,
                           err |-> "panic", after |-> stageInput])
    /\ UNCHANGED <<db, collectionName, query, stages, idx, stageInput, ret, reads, prev>>

\* The end of the loop body for an executor that returns (out, err).
Finish(res) == IF res.err # NoErr THEN Abort(res.err) ELSE Continue(res.out)

Limit ==
    /\ Dispatch("$limit")
    /\ Continue(limitStage(stageInput, stages[idx].Params))

Skip ==
    /\ Dispatch("$skip")
    /\ Continue(skipStage(stageInput, stages[idx].Params))

Sort ==
    /\ Dispatch("$sort")
    /\ \E out \in sortStage(stageInput, stages[idx].Params) : Continue(out)

Match ==
    /\ Dispatch("$match")
    /\ \E out \in matchStage(stageInput, stages[idx].Params) : Continue(out)

Count ==
    /\ Dispatch("$count")
    /\ Finish(countStage(stageInput, stages[idx].Params))

Sample ==
    /\ Dispatch("$sample")
    /\ \E res \in sampleStage(stageInput, stages[idx].Params) :
            IF res.err # NoErr THEN Abort(res.err) ELSE ContinueAfter(res.out, res.input)

BucketAuto ==
    /\ Dispatch("$bucketAuto")
    /\ Finish(bucketAutoStage(stageInput, stages[idx].Params))

Bucket ==
    /\ Dispatch("$bucket")
    /\ Finish(bucketStage(stageInput, stages[idx].Params))

Group ==
    /\ Dispatch("$group")
    /\ IF groupStagePanics(stageInput, stages[idx].Params) THEN Panic
       ELSE \E out \in groupStage(stageInput, stages[idx].Params) : Continue(out)

SortByCount ==
    /\ Dispatch("$sortByCount")
    /\ IF sortByCountStagePanics(stageInput, stages[idx].Params) THEN Panic
       ELSE \E res \in sortByCountStage(stageInput, stages[idx].Params) : Finish(res)

\* lookupStage reads the foreign collection when its parameters are accepted.
Lookup ==
    /\ Dispatch("$lookup")
    /\ LET params == stages[idx].Params
           accepted == validateLookupParams(params)
           foreignCollection == IF accepted THEN Collection(lookupFrom(params)) ELSE <<>>
           readsAfter == IF accepted THEN Append(reads, lookupFrom(params)) ELSE reads
           out == lookupStage(stageInput, foreignCollection, params)
       IN  /\ reads' = readsAfter
           /\ IF lookupStagePanics(stageInput, foreignCollection, params)
              THEN /\ pc' = "panic"
                   /\ ran' = Append(ran, [stage |-> "$lookup", in |-> stageInput, out |-> <<>>,
                                          err |-> "panic", after |-> stageInput])
                   /\ UNCHANGED <<idx, stageInput, ret>>
              ELSE /\ stageInput' = out
                   /\ ran' = Append(ran, [stage |-> "$lookup", in |-> stageInput, out |-> out,
                                          err |-> NoErr,
                                          after |-> lookupStageLeaves(stageInput,
                                                        foreignCollection, params)])
                   /\ IF Len(out) = 0 \/ idx = Len(stages)
                      THEN Return(out, NoErr) /\ UNCHANGED idx
                      ELSE pc' = "run" /\ idx' = idx + 1 /\ UNCHANGED ret
           /\ UNCHANGED <<db, collectionName, query, stages, prev>>

AddFields ==
    /\ Dispatch("$addFields")
    /\ \E res \in addFieldsStage(stageInput, stages[idx].Params) :
            IF res.err # NoErr THEN Abort(res.err) ELSE ContinueAfter(res.out, res.out)

Unwind ==
    /\ Dispatch("$unwind")
    /\ ContinueAfter(unwindStage(stageInput, stages[idx].Params),
                     unwindStageLeaves(stageInput, stages[idx].Params))

Project ==
    /\ Dispatch("$project")
    /\ ContinueAfter(projectStage(stageInput, stages[idx].Params),
                     projectStageLeaves(stageInput, stages[idx].Params))

\* The error of unsetStage is dropped: Query goes on with what it returned.
Unset ==
    /\ Dispatch("$unset")
    /\ LET res == unsetStage(stageInput, stages[idx].Params)
       IN  ContinueAfter(res.out, res.input)

\* One stage of a facet's pipeline applied to data: the outcomes it may
\* have, [out, panic, after, reads, runs], after being the documents of data
\* when the executor has returned, reads the collections read and runs the
\* executors called, in order.
\* value.(map[string]interface{}) panics when the value is not an object.
RECURSIVE facetStage(_, _)
subStage(data, key, value) ==
    LET params == value.v
        run(out, after) ==
            [out |-> out, panic |-> FALSE, after |-> after, reads |-> <<>>,
             runs |-> <<[stage |-> key, in |-> data, out |-> out, err |-> NoErr,
                         after |-> after]>>]
        crash ==
            [out |-> <<>>, panic |-> TRUE, after |-> data, reads |-> <<>>,
             runs |-> <<[stage |-> key, in |-> data, out |-> <<>>, err |-> "panic",
                         after |-> data]>>]
    IN  IF value.k # "doc" THEN {crash}
        ELSE CASE key = "$match" -> {run(out, data) : out \in matchStage(data, params)}
               [] key = "$project" ->
                    {run(projectStage(data, params), projectStageLeaves(data, params))}
               [] key = "$group" ->
                    IF groupStagePanics(data, params) THEN {crash}
                    ELSE {run(out, data) : out \in groupStage(data, params)}
               [] key = "$facet" ->
                    {[out |-> res.out, panic |-> res.panic, after |-> res.after,
                      reads |-> res.reads,
                      runs |-> res.runs
                               \o <<[stage |-> key, in |-> data, out |-> res.out,
                                     err |-> IF res.panic THEN "panic" ELSE NoErr,
                                     after |-> res.after]>>] :
                        res \in facetStage(data, params)}
               [] key = "$sort" -> {run(out, data) : out \in sortStage(data, params)}
               [] key = "$limit" -> {run(limitStage(data, params), data)}
               [] key = "$skip" -> {run(skipStage(data, params), data)}
               [] key = "$lookup" ->
                    LET foreignCollection ==
                            IF validateLookupParams(params) THEN Collection(lookupFrom(params))
                            ELSE <<>>
                        fetched == IF validateLookupParams(params)
                                   THEN <<lookupFrom(params)>> ELSE <<>>
                    IN  IF lookupStagePanics(data, foreignCollection, params)
                        THEN {[crash EXCEPT !.reads = fetched]}
                        ELSE {[run(lookupStage(data, foreignCollection, params),
                                   lookupStageLeaves(data, foreignCollection, params))
                                EXCEPT !.reads = fetched]}
               [] key = "$unwind" ->
                    {run(unwindStage(data, params), unwindStageLeaves(data, params))}
               [] OTHER -> {[out |-> data, panic |-> FALSE, after |-> data, reads |-> <<>>,
                             runs |-> <<>>]}

\* applyPipeline from stage i on: the outcomes [out, panic, reads, runs].  A stage
\* that is not an object is skipped; a stage object is modelled with one key.
RECURSIVE applyPipelineFrom(_, _, _)
applyPipelineFrom(data, pipeline, i) ==
    IF i > Len(pipeline) THEN {[out |-> data, panic |-> FALSE, reads |-> <<>>, runs |-> <<>>]}
    ELSE IF pipeline[i].k # "doc" \/ DOMAIN pipeline[i].v = {}
    THEN applyPipelineFrom(data, pipeline, i + 1)
    ELSE LET key == CHOOSE k \in DOMAIN pipeline[i].v : TRUE
         IN  UNION {IF first.panic
                    THEN {[out |-> <<>>, panic |-> TRUE, reads |-> first.reads,
                           runs |-> first.runs]}
                    ELSE {[out |-> rest.out, panic |-> rest.panic,
                           reads |-> first.reads \o rest.reads,
                           runs |-> first.runs \o rest.runs] :
                            rest \in applyPipelineFrom(first.out, pipeline, i + 1)} :
                        first \in subStage(data, key, pipeline[i].v[key])}

applyPipeline(input, pipeline) == applyPipelineFrom(input, pipeline, 1)

\* The runs of the facets in branches, one after the other (the facets
\* start from the same input and do not see each other).
RECURSIVE facetRuns(_, _)
facetRuns(branches, names) ==
    IF names = {} THEN <<>>
    ELSE LET facetName == CHOOSE n \in names : TRUE
         IN  branches[facetName].runs \o facetRuns(branches, names \ {facetName})

\* The collections the facets in branches read.
RECURSIVE facetReads(_, _)
facetReads(branches, names) ==
    IF names = {} THEN <<>>
    ELSE LET facetName == CHOOSE n \in names : TRUE
         IN  branches[facetName].reads \o facetReads(branches, names \ {facetName})

\* facetStage: the outcomes [out, panic, after, reads, runs].  A facet whose value
\* is not an array is skipped; every other facet gets the result of its
\* pipeline on the input.
facetStage(input, params) ==
    LET valid == {facetName \in DOMAIN params : params[facetName].k = "arr"}
        altered(runs) == {r \in 1..Len(runs) : runs[r].in = input /\ runs[r].after # input}
    IN  {[out |-> <<[facetName \in valid |-> Maps(branches[facetName].out)]>>,
          panic |-> \E facetName \in valid : branches[facetName].panic,
          after |-> IF altered(facetRuns(branches, valid)) = {} THEN input
                    ELSE facetRuns(branches, valid)[
                            CHOOSE r \in altered(facetRuns(branches, valid)) : TRUE].after,
          reads |-> facetReads(branches, valid),
          runs |-> facetRuns(branches, valid)] :
            branches \in {b \in [valid -> UNION {applyPipeline(input, params[n].v) : n \in valid}] :
                            \A n \in valid : b[n] \in applyPipeline(input, params[n].v)}}

\* Query, case $facet: the executors the facets call are recorded before
\* the stage itself.
Facet ==
    /\ Dispatch("$facet")
    /\ \E res \in facetStage(stageInput, stages[idx].Params) :
        IF res.panic
        THEN /\ pc' = "panic"
             /\ ran' = ran \o res.runs
                       \o <<[stage |-> "$facet", in |-> stageInput, out |-> <<>>,
                             err |-> "panic", after |-> res.after]>>
             /\ reads' = reads \o res.reads
             /\ UNCHANGED <<db, collectionName, query, stages, idx, stageInput, ret, prev>>
        ELSE /\ stageInput' = res.out
             /\ ran' = ran \o res.runs
                       \o <<[stage |-> "$facet", in |-> stageInput, out |-> res.out,
                             err |-> NoErr, after |-> res.after]>>
             /\ IF Len(res.out) = 0 \/ idx = Len(stages)
                THEN Return(res.out, NoErr) /\ UNCHANGED idx
                ELSE pc' = "run" /\ idx' = idx + 1 /\ UNCHANGED ret
             /\ reads' = reads \o res.reads
             /\ UNCHANGED <<db, collectionName, query, stages, prev>>

\* Query, case $set: the case is empty, so the stage hands its input on.
Set ==
    /\ Dispatch("$set")
    /\ IF Len(stageInput) = 0 \/ idx = Len(stages)
       THEN Return(stageInput, NoErr) /\ UNCHANGED idx
       ELSE pc' = "run" /\ idx' = idx + 1 /\ UNCHANGED ret
    /\ UNCHANGED <<db, collectionName, query, stages, stageInput, ran, reads, prev>>

\* The caller calls Query again with the same arguments; prev keeps what the
\* first call returned.
Again ==
    /\ pc = "done"
    /\ prev = <<>>
    /\ prev' = <<ret>>
    /\ pc' = "parse"
    /\ stages' = <<>>
    /\ idx' = 0
    /\ stageInput' = <<>>
    /\ ret' = [docs |-> <<>>, err |-> NoErr]
    /\ ran' = <<>>
    /\ reads' = <<>>
    /\ UNCHANGED <<db, collectionName, query>>

\* The state in which Query is called.
Call(collections, name, pipeline) ==
    /\ db = collections
    /\ collectionName = name
    /\ query = pipeline
    /\ pc = "parse"
    /\ stages = <<>>
    /\ idx = 0
    /\ stageInput = <<>>
    /\ ret = [docs |-> <<>>, err |-> NoErr]
    /\ ran = <<>>
    /\ reads = <<>>
    /\ prev = <<>>

\* All sequences over S of lengths lo..hi.
SeqsOf(S, lo, hi) == UNION {[1..n -> S] : n \in lo..hi}

-----------------------------------------------------------------------------
(* $skip then $limit                                                       *)

MaxDocs == 3
MaxPage == 4

PagingDocs == {("_id" :> Num(1)), ("_id" :> Num(2)) @@ ("x" :> Str(<<120>>))}

PagingQueries ==
    {<<("$skip" :> Num(k)), ("$limit" :> Num(n))>> : k \in 0..MaxPage, n \in 0..MaxPage}
    \cup {<<("$skip" :> Num(k)), ("$limit" :> Num(n)), ("$limit" :> Num(n))>> :
            k \in 0..MaxPage, n \in 0..MaxPage}

InitPaging ==
    \E docs \in SeqsOf(PagingDocs, 1, MaxDocs), q \in PagingQueries :
        Call(("users" :> docs), "users", q)

NextPaging == Parse \/ Fetch \/ Skip \/ Limit

SpecPaging == InitPaging /\ [][NextPaging]_vars

\* C1: the pipeline [{$skip: k}, {$limit: n}] over L >= 1 documents returns the
\* max(0, min(n, L-k)) documents at positions k .. k+min(n, L-k)-1 of the
\* input, in input order, without error, and a second {$limit: n} appended to
\* the pipeline returns the same.
C1_SkipLimit ==
    pc = "done" =>
        LET L == Len(db[collectionName])
            k == query[1]["$skip"].v
            n == query[2]["$limit"].v
            size == Max(0, Min(n, L - k))
        IN  /\ ret.err = NoErr
            /\ Len(ret.docs) = size
            /\ ret.docs = SubSeq(db[collectionName], k + 1, k + size)

\* A run that skipped some and cut some: 0 < k, and n smaller than what is left.
C1_Witness ==
    /\ pc = "done"
    /\ Len(query) = 3
    /\ query[1]["$skip"].v > 0
    /\ Len(ret.docs) = query[2]["$limit"].v
    /\ Len(ret.docs) > 0
    /\ Len(ret.docs) < Len(db[collectionName]) - query[1]["$skip"].v

-----------------------------------------------------------------------------
(* $sort twice                                                             *)

MaxSortDocs == 3

S_5x == <<53, 120>>     \* "5x"
S_9 == <<57>>           \* "9"

\* Values of the sort field a: a number, a numeric string, a string that is
\* no number, and the field missing.
SortFieldA == {<<>>, ("a" :> Num(9)), ("a" :> Num(10)), ("a" :> Str(S_9)), ("a" :> Str(S_5x))}
SortFieldB == {("b" :> Num(1)), ("b" :> Num(2))}

\* Collections whose documents carry their position as _id.
SortCollections ==
    UNION {{[i \in 1..n |-> ("_id" :> Num(i)) @@ fa[i] @@ fb[i]] :
                fa \in [1..n -> SortFieldA], fb \in [1..n -> SortFieldB]} :
           n \in 1..MaxSortDocs}

SortSpecs ==
    {("a" :> Num(d)) : d \in {1, -1}}
    \cup {("a" :> Num(1)) @@ ("b" :> Num(d)) : d \in {1, -1}}

InitSort ==
    \E docs \in SortCollections, sortSpec \in SortSpecs :
        Call(("users" :> docs), "users", <<("$sort" :> Doc(sortSpec)), ("$sort" :> Doc(sortSpec))>>)

NextSort == Parse \/ Fetch \/ Sort

SpecSort == InitSort /\ [][NextSort]_vars

\* Two documents compare equal on the sort key field.
SortKeyEqual(field, di, dj) ==
    IF toFloat64Ok(Get(di, field)) /\ toFloat64Ok(Get(dj, field))
    THEN toFloat64(Get(di, field)) = toFloat64(Get(dj, field))
    ELSE Sprintf(Get(di, field)) = Sprintf(Get(dj, field))

\* The position in s of the document whose _id is id.
PosOf(s, id) == CHOOSE p \in 1..Len(s) : s[p]["_id"] = id

\* out keeps the relative order that the documents equal on all keys have in in.
StableFor(sortSpec, in, out) ==
    \A p, q \in 1..Len(in) :
        (p < q /\ \A field \in DOMAIN sortSpec : SortKeyEqual(field, in[p], in[q]))
            => PosOf(out, in[p]["_id"]) < PosOf(out, in[q]["_id"])

\* C2: $sort is stable and idempotent for every sort spec of one or several
\* keys and every input: documents equal on all sort keys keep their relative
\* input order, and sorting the output of $sort again by the same spec
\* returns the same sequence.
C2_StableIdempotent ==
    (pc = "done" /\ Len(ran) = 2) =>
        /\ StableFor(query[1]["$sort"].v, ran[1].in, ran[1].out)
        /\ ran[2].out = ran[1].out

-----------------------------------------------------------------------------
(* $match with one comparison operator                                     *)

MaxMatchDocs == 2

S_30 == <<51, 48>>      \* "30"

MatchDocs ==
    { EmptyDoc, ("age" :> Num(30)), ("age" :> Num(20)), ("age" :> Str(S_30)),
      ("age" :> Nil), ("a" :> Doc(("b" :> Num(30)))), ("a" :> Num(30)) @@ ("b" :> Num(30)),
      ("a" :> Doc(("x" :> Num(30)))) }

ComparisonOperators == {"$eq", "$ne", "$gt", "$gte", "$lt", "$lte"}

\* Operands that are not null: numbers, a numeric string, another string, a bool.
MatchOperands == {Num(25), Num(30), Num(-1), Str(S_30), Str(S_5x), Bool(TRUE)}

MatchQueries ==
    {<<("$match" :> Doc((field :> Doc((op :> operand)))))>> :
        field \in {"age", "a.b"}, op \in ComparisonOperators, operand \in MatchOperands}

InitMatch ==
    \E docs \in SeqsOf(MatchDocs, 1, MaxMatchDocs), q \in MatchQueries :
        Call(("users" :> docs), "users", q)

NextMatch == Parse \/ Fetch \/ Match

SpecMatch == InitMatch /\ [][NextMatch]_vars

\* The field and the operator of the one criterion of the $match stage.
CriterionField == CHOOSE field \in DOMAIN query[1]["$match"].v : TRUE
CriterionOperator == CHOOSE op \in DOMAIN query[1]["$match"].v[CriterionField].v : TRUE

Lacks(doc, field) == ~getNestedFieldExists(doc, field).exists

\* C3 as stated: for each of $eq, $ne, $gt, $gte, $lt, $lte and every non-null
\* operand, $match {f: {op: v}} returns no document that lacks f.
C3_MissingNeverMatches ==
    pc = "done" => \A i \in 1..Len(ret.docs) : ~Lacks(ret.docs[i], CriterionField)

\* C3 amended: for each of $eq, $gt, $gte, $lt, $lte and every non-null operand,
\* $match {f: {op: v}} returns no document that lacks f, while {f: {$ne: v}}
\* returns every document that lacks f.
C3_MissingMatchesOnlyNe ==
    pc = "done" =>
        IF CriterionOperator = "$ne"
        THEN \A i \in 1..Len(db[collectionName]) :
                Lacks(db[collectionName][i], CriterionField)
                    => \E j \in 1..Len(ret.docs) : ret.docs[j] = db[collectionName][i]
        ELSE \A i \in 1..Len(ret.docs) : ~Lacks(ret.docs[i], CriterionField)

\* A $gt stage that kept a document and dropped one lacking the field.
C3_Witness ==
    /\ pc = "done"
    /\ CriterionOperator = "$gt"
    /\ Len(ret.docs) = 1
    /\ Len(db[collectionName]) = 2
    /\ \E i \in 1..2 : Lacks(db[collectionName][i], CriterionField)

-----------------------------------------------------------------------------
(* Validation of the whole pipeline before any stage runs                  *)

MaxStages == 3

ValidateCollections == ("users" :> <<("_id" :> Num(1)) @@ ("age" :> Num(30)), ("_id" :> Num(2))>>)

ValidStageObjects ==
    {("$limit" :> Num(1)),
     ("$skip" :> Num(1)),
     ("$match" :> Doc(("age" :> Doc(("$gt" :> Num(25))))))}

InvalidStageObjects ==
    {("$limit" :> Num(-1)),
     ("$skip" :> Str(<<120>>)),
     ("$match" :> Doc(EmptyDoc)),
     ("$unionWith" :> Str(Spell["users"])),
     ("$limit" :> Arr(<<Num(1)>>)),
     ("$limit" :> Num(1)) @@ ("$skip" :> Num(-1))}

InitValidate ==
    \E pipeline \in SeqsOf(ValidStageObjects \cup InvalidStageObjects, 1, MaxStages) :
        Call(ValidateCollections, "users", pipeline)

NextValidate == Parse \/ Fetch \/ Limit \/ Skip \/ Match

SpecValidate == InitValidate /\ [][NextValidate]_vars

StageObjectInvalid(i) == \E name \in DOMAIN query[i] : StageError(name, query[i][name]) # NoErr

\* C4: when any stage of the pipeline, at whatever position, fails validation,
\* Query returns an error, no stage executor has run and the collection has
\* not been read, valid stages before the invalid one included.
C4_EagerValidation ==
    (\E i \in 1..Len(query) : StageObjectInvalid(i))
        => /\ pc \in {"parse", "done"}
           /\ ran = <<>>
           /\ reads = <<>>
           /\ pc = "done" => (ret.err # NoErr /\ ret.docs = <<>>)

C4_Witness ==
    /\ pc = "done"
    /\ ret.err # NoErr
    /\ Len(query) >= 2
    /\ ~StageObjectInvalid(1)
    /\ StageObjectInvalid(Len(query))

-----------------------------------------------------------------------------
(* The break on an empty sequence                                          *)

MaxEmptyDocs == 2
MaxEmptyStages == 2

EmptyDocs == {("age" :> Num(30)), ("age" :> Num(20)), ("n" :> Str(<<120>>))}

EmptyStageObjects ==
    {("$match" :> Doc(("age" :> Doc(("$gt" :> Num(25)))))),
     ("$limit" :> Num(0)),
     ("$skip" :> Num(1)),
     ("$count" :> Str(Spell["total"])),
     ("$sample" :> Doc(("size" :> Num(1)))),
     ("$bucketAuto" :> Doc(("groupBy" :> Str(<<36>> \o Spell["age"])) @@ ("buckets" :> Num(2))))}

InitEmpty ==
    \E docs \in SeqsOf(EmptyDocs, 0, MaxEmptyDocs), name \in {"users", "ghost"},
       pipeline \in SeqsOf(EmptyStageObjects, 1, MaxEmptyStages) :
        Call(("users" :> docs), name, pipeline)

NextEmpty == Parse \/ Fetch \/ Match \/ Limit \/ Skip \/ Count \/ Sample \/ BucketAuto

SpecEmpty == InitEmpty /\ [][NextEmpty]_vars

\* C5: once the working sequence is empty (an empty or missing collection, or
\* a stage that returned nothing), no later stage executor is invoked and
\* Query returns an empty result with a nil error, whatever the later stages
\* are ($count, $sample and $bucketAuto included).
C5_ShortCircuit ==
    /\ \A i \in 1..Len(ran) : Len(ran[i].in) > 0
    /\ \A i \in 1..Len(ran) : (ran[i].err = NoErr /\ Len(ran[i].out) = 0) => i = Len(ran)
    /\ (reads # <<>> /\ Len(stageInput) = 0)
            => (pc = "done" /\ ret = [docs |-> <<>>, err |-> NoErr])

C5_Witness ==
    /\ pc = "done"
    /\ Len(stages) = 2
    /\ stages[2].Stage \in {"$count", "$sample", "$bucketAuto"}
    /\ Len(ran) = 1
    /\ ran[1].err = NoErr
    /\ Len(ran[1].out) = 0
    /\ ret = [docs |-> <<>>, err |-> NoErr]

-----------------------------------------------------------------------------
(* $sample                                                                 *)

MaxSampleDocs == 4
MaxSampleSize == 5

\* Documents {_id: position}, every second one carrying the same field too.
SampleInput(n) ==
    [i \in 1..n |-> IF i % 2 = 0 THEN ("_id" :> Num(i)) @@ ("g" :> Str(<<120>>))
                    ELSE ("_id" :> Num(i))]

InitSample ==
    \E n \in 1..MaxSampleDocs, size \in 1..MaxSampleSize :
        Call(("users" :> SampleInput(n)), "users", <<("$sample" :> Doc(("size" :> Num(size))))>>)

NextSample == Parse \/ Fetch \/ Sample

SpecSample == InitSample /\ [][NextSample]_vars

\* The ways of taking n different positions of a sequence of length len.
DistinctPositions(n, len) ==
    {p \in [1..n -> 1..len] : \A i, j \in 1..n : p[i] = p[j] => i = j}

-----------------------------------------------------------------------------
(* $bucket                                                                 *)

MaxBucketDocs == 3
MaxBoundaries == 3

BucketFieldX == {Num(-1), Num(5), Num(10), Num(15), Num(20), Num(25), Str(<<53>>), Nil}

BucketDocs == {("x" :> v) : v \in BucketFieldX} \cup {("n" :> Num(5))}

BucketBoundaries == {[i \in 1..m |-> Num(10 * (i - 1))] : m \in 2..MaxBoundaries}

CountOutput == ("count" :> Doc(("$sum" :> Num(1))))

BucketParams ==
    {("groupBy" :> Str(Spell["x"])) @@ ("boundaries" :> Arr(b)) @@ ("output" :> Doc(CountOutput)) @@ d :
        b \in BucketBoundaries, d \in {EmptyDoc, ("default" :> Str(Spell["Other"]))}}

InitBucket ==
    \E docs \in SeqsOf(BucketDocs, 1, MaxBucketDocs), params \in BucketParams :
        Call(("users" :> docs), "users", <<("$bucket" :> Doc(params))>>)

NextBucket == Parse \/ Fetch \/ Bucket

SpecBucket == InitBucket /\ [][NextBucket]_vars

\* The positions of input whose field x is a number v with lo <= v < hi.
PositionsWithin(input, lo, hi) ==
    {p \in 1..Len(input) :
        /\ "x" \in DOMAIN input[p]
        /\ input[p]["x"].k = "num"
        /\ lo <= input[p]["x"].v
        /\ input[p]["x"].v < hi}

RECURSIVE SumCounts(_)
SumCounts(out) == IF Len(out) = 0 THEN 0 ELSE out[1]["count"].v + SumCounts(Tail(out))

-----------------------------------------------------------------------------
(* Two runs of the same pipeline over the same collection                  *)

MaxTwiceDocs == 2

TwiceDocs == {("a" :> Num(x)) @@ ("b" :> Num(y)) : x \in 1..2, y \in 1..2}

\* Pipelines without $sample and without $group.
TwicePipelines ==
    {<<("$sort" :> Doc(("a" :> Num(1))))>>,
     <<("$sort" :> Doc(("a" :> Num(1)) @@ ("b" :> Num(-1))))>>,
     <<("$match" :> Doc(("a" :> Num(1)) @@ ("b" :> Num(2))))>>,
     <<("$match" :> Doc(("$or" :> Arr(<<Doc(("a" :> Num(1)))>>)) @@ ("b" :> Num(2))))>>,
     <<("$addFields" :> Doc(("a" :> Str(<<36>> \o Spell["b"])) @@ ("b" :> Str(<<36>> \o Spell["a"]))))>>,
     <<("$skip" :> Num(1)), ("$limit" :> Num(1))>>,
     <<("$skip" :> Num(1)) @@ ("$limit" :> Num(1))>>}

InitTwice ==
    \E docs \in SeqsOf(TwiceDocs, 1, MaxTwiceDocs), pipeline \in TwicePipelines :
        Call(("users" :> docs), "users", pipeline)

NextTwice == Parse \/ Fetch \/ Sort \/ Match \/ AddFields \/ Skip \/ Limit \/ Again

SpecTwice == InitTwice /\ [][NextTwice]_vars

\* C6: two runs of Query over the same collection with the same pipeline
\* (no $sample, no $group) return the same result, whatever order the keys
\* of a $sort, $match or $addFields object or of a multi-key stage object
\* are enumerated in.
C6_Deterministic == (pc = "done" /\ prev # <<>>) => ret = prev[1]

-----------------------------------------------------------------------------
(* Documents of any shape                                                  *)

MaxShapeDocs == 2

ShapeValues == {Num(1), Str(<<120>>), Nil, Arr(<<Num(1)>>), Doc(("a" :> Num(1)))}

ShapeDocs == {("k" :> v) : v \in ShapeValues} \cup {("n" :> Num(1))}

ShapeOrders == <<("k" :> Arr(<<Num(1)>>)), ("k" :> Num(1)), ("f" :> Num(2))>>

FieldK == Str(<<36>> \o Spell["k"])

ShapePipelines ==
    {<<("$group" :> Doc(("_id" :> FieldK)))>>,
     <<("$group" :> Doc(("_id" :> FieldK) @@ ("total" :> Doc(("$sum" :> Num(1))))))>>,
     <<("$group" :> Doc(("_id" :> Nil) @@ ("g" :> Doc(("$addToSet" :> FieldK)))))>>,
     <<("$sortByCount" :> FieldK)>>,
     <<("$lookup" :> Doc(("from" :> Str(Spell["orders"])) @@ ("localField" :> Str(Spell["k"]))
                         @@ ("foreignField" :> Str(Spell["k"])) @@ ("as" :> Str(Spell["joined"]))))>>,
     <<("$bucketAuto" :> Doc(("groupBy" :> FieldK) @@ ("buckets" :> Num(2))))>>}

InitShape ==
    \E docs \in SeqsOf(ShapeDocs, 1, MaxShapeDocs), pipeline \in ShapePipelines :
        Call(("users" :> docs) @@ ("orders" :> ShapeOrders), "users", pipeline)

NextShape == Parse \/ Fetch \/ Group \/ SortByCount \/ Lookup \/ BucketAuto

SpecShape == InitShape /\ [][NextShape]_vars

\* C7: for a pipeline that passes validation and documents of any shape (an
\* array or a sub-document as $group key, $sortByCount key, $addToSet value
\* or $lookup field value, no numeric $bucketAuto groupBy value), Query does
\* not crash and returns a nil error.
C7_NoHardFailure ==
    ParseError(query) = NoErr =>
        /\ pc # "panic"
        /\ pc = "done" => ret.err = NoErr

-----------------------------------------------------------------------------
(* $lookup                                                                 *)

MaxLookupDocs == 2

LookupValues == {Num(1), Num(2), Str(<<49>>), Arr(<<Num(1)>>)}

LocalDocs == {("k" :> v) : v \in LookupValues} \cup {("n" :> Num(1))}

ForeignDocs == {("f" :> v) @@ ("n" :> Num(7)) : v \in LookupValues}

LookupParams(from) ==
    ("from" :> Str(Spell[from])) @@ ("localField" :> Str(Spell["k"]))
    @@ ("foreignField" :> Str(Spell["f"])) @@ ("as" :> Str(Spell["joined"]))

InitLookup ==
    \E docs \in SeqsOf(LocalDocs, 1, MaxLookupDocs), foreign \in SeqsOf(ForeignDocs, 0, MaxLookupDocs),
       from \in {"orders", "ghost"} :
        Call(("users" :> docs) @@ ("orders" :> foreign), "users",
             <<("$lookup" :> Doc(LookupParams(from)))>>)

NextLookup == Parse \/ Fetch \/ Lookup

SpecLookup == InitLookup /\ [][NextLookup]_vars

\* The foreign documents whose field f equals the field k of doc, in the
\* order of the foreign collection; none when doc has no field k.
Matching(doc, foreign) ==
    IF "k" \notin DOMAIN doc THEN <<>>
    ELSE SelectSeq(foreign, LAMBDA fd : "f" \in DOMAIN fd /\ fd["f"] = doc["k"])

\* C8: a $lookup stage with valid parameters returns as many documents as
\* it was given, in the same order, each being the input document with the
\* `as` field added, whose value is the sequence of the foreign documents
\* whose foreignField value equals the document's localField value, in
\* foreign-collection order: empty, never absent, when nothing matches,
\* when the foreign collection is empty or missing, or when the document
\* has no localField.
C8_LookupJoin ==
    \A r \in 1..Len(ran) :
        ran[r].stage = "$lookup" =>
            LET input == ran[r].in
                out == ran[r].out
                foreign == Collection(KeyOf(stages[r].Params["from"].v))
            IN  /\ ran[r].err = NoErr
                /\ Len(out) = Len(input)
                /\ \A i \in 1..Len(out) :
                    /\ "joined" \in DOMAIN out[i]
                    /\ out[i]["joined"].v = Matching(input[i], foreign)
                    /\ \A key \in DOMAIN input[i] : key \in DOMAIN out[i] /\ out[i][key] = input[i][key]

-----------------------------------------------------------------------------
(* $group: partition, counts and averages                                  *)

MaxGroupDocs == 3

S_A == <<65>>
S_B == <<66>>

GroupDocsIn ==
    {("f" :> Str(c)) @@ g : c \in {S_A, S_B},
        g \in {("g" :> Num(10)), ("g" :> Num(20)), ("g" :> Num(5)), ("g" :> Str(<<53>>)), EmptyDoc}}
    \cup {("g" :> Num(10)), ("n" :> Num(1)), ("f" :> Nil) @@ ("g" :> Num(5))}

GroupByF ==
    ("$group" :> Doc(("_id" :> Str(<<36>> \o Spell["f"]))
                     @@ ("count" :> Doc(("$sum" :> Num(1))))
                     @@ ("avg" :> Doc(("$avg" :> Str(<<36>> \o Spell["g"]))))))

InitGroup ==
    \E docs \in SeqsOf(GroupDocsIn, 1, MaxGroupDocs) : Call(("users" :> docs), "users", <<GroupByF>>)

NextGroup == Parse \/ Fetch \/ Group

SpecGroup == InitGroup /\ [][NextGroup]_vars

\* The value of g as a number, for the positions of input where it is one
\* (a JSON number or a string spelling one).
NumericG(input) ==
    [p \in {q \in 1..Len(input) :
                "g" \in DOMAIN input[q] /\ (input[q]["g"].k = "num" \/
                    (input[q]["g"].k = "str" /\ ParseFloatOk(input[q]["g"].v)))} |->
        IF input[p]["g"].k = "num" THEN input[p]["g"].v ELSE ParseFloat(input[p]["g"].v)]

RECURSIVE SumOver(_, _)
SumOver(f, S) == IF S = {} THEN 0 ELSE LET x == CHOOSE y \in S : TRUE IN f[x] + SumOver(f, S \ {x})

\* val is the float64 sum / n
IsQuotient(val, sum, n) ==
    IF val.k = "num" THEN val.v * n = sum
    ELSE val.k = "frac" /\ val.v[1] * n = sum * val.v[2]

\* C11: $group with _id "$f" emits exactly one document per distinct value
\* of f (null for the documents without f), its {$sum: 1} count is the number
\* of input documents with that value, so the counts sum to the input
\* length, and its {$avg: "$g"} is the sum of the numeric g values of these
\* documents divided by their number.
C11_GroupPartition ==
    \A r \in 1..Len(ran) :
        ran[r].stage = "$group" =>
            LET input == ran[r].in
                out == ran[r].out
                keyAt(p) == IF "f" \in DOMAIN input[p] THEN input[p]["f"] ELSE Nil
                members(j) == {p \in 1..Len(input) : keyAt(p) = out[j]["_id"]}
                numeric(j) == members(j) \cap DOMAIN NumericG(input)
            IN  /\ ran[r].err = NoErr
                /\ {out[j]["_id"] : j \in 1..Len(out)} = {keyAt(p) : p \in 1..Len(input)}
                /\ \A i, j \in 1..Len(out) : out[i]["_id"] = out[j]["_id"] => i = j
                /\ \A j \in 1..Len(out) : out[j]["count"] = Num(Cardinality(members(j)))
                /\ SumOf([j \in 1..Len(out) |-> out[j]["count"].v]) = Len(input)
                /\ \A j \in 1..Len(out) :
                        numeric(j) # {} =>
                            IsQuotient(out[j]["avg"], SumOver(NumericG(input), numeric(j)),
                                       Cardinality(numeric(j)))

\* City A with 10 and 20 gives 15, city B with 5 gives 5.
C11_Witness ==
    /\ pc = "done"
    /\ Len(ran) = 1 /\ ran[1].stage = "$group"
    /\ ran[1].in = <<("f" :> Str(S_A)) @@ ("g" :> Num(10)), ("f" :> Str(S_A)) @@ ("g" :> Num(20)),
                     ("f" :> Str(S_B)) @@ ("g" :> Num(5))>>
    /\ \E j \in 1..2 : ret.docs[j]["_id"] = Str(S_A) /\ ret.docs[j]["avg"] = Num(15)
    /\ \E j \in 1..2 : ret.docs[j]["_id"] = Str(S_B) /\ ret.docs[j]["avg"] = Num(5)

-----------------------------------------------------------------------------
(* $unwind then $group with $push                                          *)

MaxArrayLen == 2

ArrayElements == {Num(1), Str(<<120>>), Doc(("a" :> Num(1))), Doc(("a" :> Num(2)))}

ArrayDocs(key) == {("key" :> Num(key)) @@ ("p" :> Arr(A)) : A \in SeqsOf(ArrayElements, 1, MaxArrayLen)}

UnwindGroup ==
    <<("$unwind" :> Str(<<36>> \o Spell["p"])),
      ("$group" :> Doc(("_id" :> Str(<<36>> \o Spell["key"]))
                       @@ ("p" :> Doc(("$push" :> Str(<<36>> \o Spell["p"]))))))>>

InitRoundTrip ==
    \/ \E d \in ArrayDocs(1) : Call(("users" :> <<d>>), "users", UnwindGroup)
    \/ \E d \in ArrayDocs(1), e \in ArrayDocs(2) : Call(("users" :> <<d, e>>), "users", UnwindGroup)

NextRoundTrip == Parse \/ Fetch \/ Unwind \/ Group

SpecRoundTrip == InitRoundTrip /\ [][NextRoundTrip]_vars

\* The sequences a and b hold the same elements the same number of times.
SameMultiset(a, b) ==
    /\ Len(a) = Len(b)
    /\ \E o \in Orders(1..Len(a)) : \A i \in 1..Len(a) : a[i] = b[o[i]]

\* C12: for every document with a unique key and a non-empty array at p
\* (scalars or sub-documents), $unwind "$p" followed by $group by the key
\* with {$push: "$p"} yields for that key an array with the same multiset
\* of elements.
C12_UnwindPushRoundTrip ==
    pc = "done" =>
        \A i \in 1..Len(db["users"]) :
            \E j \in 1..Len(ret.docs) :
                /\ ret.docs[j]["_id"] = db["users"][i]["key"]
                /\ "p" \in DOMAIN ret.docs[j]
                /\ ret.docs[j]["p"].k = "arr"
                /\ SameMultiset(ret.docs[j]["p"].v, db["users"][i]["p"].v)

-----------------------------------------------------------------------------
(* $unset in its several forms                                             *)

MaxUnsetDocs == 2

UnsetDocs ==
    {("a" :> Num(1)) @@ ("b" :> Num(2)) @@ ("x" :> Num(3)),
     ("a" :> Num(1)) @@ ("x" :> Num(4)),
     ("b" :> Str(Spell["b"])) @@ ("x" :> Nil),
     ("x" :> Num(5))}

\* The sets of field names to remove.
UnsetNames == {<<"a">>, <<"b">>, <<"a", "b">>, <<"b", "x">>}

NameStrings(names) == [i \in 1..Len(names) |-> Str(Spell[names[i]])]

\* The values of a $unset stage that name the fields of names: a single
\* name, an array of names, a map with the names as keys, a map with a path
\* that is a name or an array of names.
UnsetForms(names) ==
    (IF Len(names) = 1 THEN {Str(Spell[names[1]]), Doc(("path" :> Str(Spell[names[1]])))}
     ELSE {})
    \cup {Arr(NameStrings(names)),
          Doc([k \in {names[i] : i \in 1..Len(names)} |-> Num(1)]),
          Doc(("path" :> Arr(NameStrings(names))))}

\* The names that the stage value val names.
NamedFields(val) ==
    LET namesOf(v) == IF v.k = "str" THEN {KeyOf(v.v)}
                      ELSE {KeyOf(v.v[i].v) : i \in 1..Len(v.v)}
    IN  CASE val.k \in {"str", "arr"} -> namesOf(val)
          [] val.k = "doc" /\ "path" \in DOMAIN val.v -> namesOf(val.v["path"])
          [] OTHER -> DOMAIN val.v

InitUnset ==
    \E docs \in SeqsOf(UnsetDocs, 1, MaxUnsetDocs), names \in UnsetNames :
        \E form \in UnsetForms(names) :
            Call(("users" :> docs), "users", <<("$unset" :> form)>>)

NextUnset == Parse \/ Fetch \/ Unset

SpecUnset == InitUnset /\ [][NextUnset]_vars

\* C16: whichever form the value of the $unset stage has (a name, an array
\* of names, a map with the names as keys, a map with a path), Query
\* returns no error, and as many documents as the collection holds, in the
\* same order, each being the input document minus exactly the named
\* fields.
C16_UnsetForms ==
    pc = "done" =>
        /\ ret.err = NoErr
        /\ Len(ret.docs) = Len(db["users"])
        /\ \A i \in 1..Len(ret.docs) :
            ret.docs[i] = [k \in DOMAIN db["users"][i] \ NamedFields(query[1]["$unset"])
                            |-> db["users"][i][k]]

-----------------------------------------------------------------------------
(* $project mixing inclusion and exclusion                                 *)

MaxProjectDocs == 2

ProjectDocs ==
    {("_id" :> Num(1)) @@ ("a" :> Num(1)) @@ ("b" :> Num(2)),
     ("_id" :> Num(2)) @@ ("a" :> Str(Spell["x"])),
     ("a" :> Num(3)) @@ ("b" :> Nil) @@ ("x" :> Num(4))}

\* A specification gives 1, 0 or a field reference to some of _id, a, b.
ProjectSpecs ==
    {spec \in UNION {[F -> {Num(1), Num(0), Str(<<36>> \o Spell["x"])}] :
                        F \in SUBSET {"_id", "a", "b"}} :
        DOMAIN spec # {}}

\* It gives 1 to one field other than _id and 0 to another.
MixesModes(spec) ==
    /\ \E field \in DOMAIN spec \ {"_id"} : spec[field] = Num(1)
    /\ \E field \in DOMAIN spec \ {"_id"} : spec[field] = Num(0)

InitProject ==
    \E docs \in SeqsOf(ProjectDocs, 1, MaxProjectDocs), spec \in ProjectSpecs :
        \/ Call(("users" :> docs), "users", <<("$project" :> Doc(spec))>>)
        \/ Call(("users" :> docs), "users",
                <<("$project" :> Doc(spec)), ("$limit" :> Num(1))>>)

NextProject == Parse \/ Fetch \/ Project \/ Limit

SpecProject == InitProject /\ [][NextProject]_vars

\* C17: for a pipeline whose $project gives 1 to one field other than _id
\* and 0 to another, Query returns an error and no document, and runs no
\* stage.
C17_MixedProjectionRejected ==
    (pc = "done" /\ MixesModes(query[1]["$project"].v)) =>
        /\ ret.err # NoErr
        /\ ret.docs = <<>>
        /\ ran = <<>>

-----------------------------------------------------------------------------
(* $facet with a facet that is not a sub-pipeline                          *)

MaxFacetDocs == 2

FacetDocs == {("a" :> Num(1)), ("a" :> Num(2)), ("a" :> Num(1)) @@ ("b" :> Num(3))}

\* Arrays of stage objects.
FacetPipelines ==
    {Arr(<<>>),
     Arr(<<Doc(("$limit" :> Doc(("value" :> Num(1)))))>>),
     Arr(<<Doc(("$match" :> Doc(("a" :> Num(1)))))>>),
     Arr(<<Doc(("$sort" :> Doc(("a" :> Num(-1))))), Doc(("$skip" :> Doc(("value" :> Num(1)))))>>)}

\* Values that are not arrays of stage objects.
NotPipelines == {Num(5), Str(Spell["x"]), Doc(("$limit" :> Num(1))), Arr(<<Num(1)>>)}

FacetParams == [{"a", "b"} -> FacetPipelines \cup NotPipelines] \cup [{"a"} -> NotPipelines]

IsSubPipeline(val) == val.k = "arr" /\ \A i \in 1..Len(val.v) : val.v[i].k = "doc"

InitFacet ==
    \E docs \in SeqsOf(FacetDocs, 1, MaxFacetDocs), params \in FacetParams :
        \/ Call(("users" :> docs), "users", <<("$facet" :> Doc(params))>>)
        \/ Call(("users" :> docs), "users",
                <<("$facet" :> Doc(params)), ("$count" :> Str(Spell["n"]))>>)

NextFacet == Parse \/ Fetch \/ Facet \/ Count

SpecFacet == InitFacet /\ [][NextFacet]_vars

\* C18: when some facet of a $facet stage is not an array of stage
\* objects, Query returns no error, the stage outputs exactly one document
\* whose fields are exactly the facets that are arrays of stage objects,
\* and the next stage runs on that one document.
C18_InvalidFacetSkipped ==
    LET params == query[1]["$facet"].v
        ranFacet == {r \in 1..Len(ran) : ran[r].stage = "$facet"}
    IN  (pc = "done" /\ \E facetName \in DOMAIN params : ~IsSubPipeline(params[facetName])) =>
            /\ ret.err = NoErr
            /\ \E r \in ranFacet :
                /\ Len(ran[r].out) = 1
                /\ DOMAIN ran[r].out[1]
                    = {facetName \in DOMAIN params : IsSubPipeline(params[facetName])}
                /\ Len(query) > 1 => (r < Len(ran) /\ ran[r + 1].in = ran[r].out)

-----------------------------------------------------------------------------
(* Copy-on-write                                                           *)

MaxCopyDocs == 2

MaxCopyStages == 2

FieldP == Str(<<36>> \o Spell["p"])

CopyDocs ==
    {("_id" :> Num(1)) @@ ("a" :> Num(1)) @@ ("p" :> Arr(<<Num(1), Num(2)>>)),
     ("a" :> Num(2)) @@ ("p" :> Arr(<<Doc(("a" :> Num(1)))>>)),
     ("a" :> Num(1)) @@ ("p" :> Num(3))}

CopyOrders == <<("a" :> Num(1)) @@ ("n" :> Num(7)), ("a" :> Num(1)) @@ ("n" :> Num(8))>>

CopyLookup ==
    Doc(("from" :> Str(Spell["orders"])) @@ ("localField" :> Str(Spell["a"]))
        @@ ("foreignField" :> Str(Spell["a"])) @@ ("as" :> Str(Spell["p"])))

CopyUnwind ==
    Doc(("path" :> FieldP) @@ ("includeArrayIndex" :> Str(Spell["idx"])))

CopyStages ==
    {("$project" :> Doc(("a" :> Num(1)))),
     ("$project" :> Doc(("p" :> Num(0)))),
     ("$project" :> Doc(("x" :> FieldP)
                        @@ ("p" :> Doc(("$add" :> Arr(<<Str(<<36>> \o Spell["a"]), Num(1)>>)))))),
     ("$unset" :> Str(Spell["p"])),
     ("$unset" :> Doc(("a" :> Num(1)) @@ ("p" :> Num(1)))),
     ("$unwind" :> FieldP),
     ("$unwind" :> CopyUnwind),
     ("$lookup" :> CopyLookup),
     ("$sort" :> Doc(("a" :> Num(-1)))),
     ("$match" :> Doc(("a" :> Num(1)))),
     ("$addFields" :> Doc(("p" :> Str(<<36>> \o Spell["a"])))),
     ("$facet" :> Doc(("a" :> Arr(<<Doc(("$unwind" :> CopyUnwind))>>))
                      @@ ("b" :> Arr(<<Doc(("$project" :> Doc(("p" :> Num(0)))))>>)))),
     ("$facet" :> Doc(("a" :> Arr(<<Doc(("$lookup" :> CopyLookup))>>))
                      @@ ("b" :> Arr(<<Doc(("$match" :> Doc(("a" :> Num(1))))),
                                       Doc(("$unwind" :> CopyUnwind))>>))))}

InitCopy ==
    \E docs \in SeqsOf(CopyDocs, 1, MaxCopyDocs), pipeline \in SeqsOf(CopyStages, 1, MaxCopyStages) :
        Call(("users" :> docs) @@ ("orders" :> CopyOrders), "users", pipeline)

NextCopy ==
    Parse \/ Fetch \/ Project \/ Unset \/ Unwind \/ Lookup \/ Sort \/ Match \/ AddFields
    \/ Facet

SpecCopy == InitCopy /\ [][NextCopy]_vars

\* C13: when a stage executor other than $addFields has returned, called by
\* Query or for a facet, the documents of its input sequence have the
\* fields and values they had when it was called; so the documents an
\* earlier stage returned, and the input the other facets share, are not
\* altered by $project, $unset, $unwind or $lookup.
C13_CopyOnWrite ==
    \A r \in 1..Len(ran) : ran[r].stage # "$addFields" => ran[r].after = ran[r].in

\* A $facet has run an $unwind that changed field content in one facet and
\* a $project on the same input in another.
C13_Witness ==
    /\ pc = "done"
    /\ \E r1, r2, r3 \in 1..Len(ran) :
        /\ ran[r1].stage = "$unwind"
        /\ ran[r2].stage = "$project"
        /\ ran[r3].stage = "$facet"
        /\ ran[r1].in = ran[r3].in
        /\ ran[r2].in = ran[r3].in
        /\ \E i \in 1..Len(ran[r1].out) : ran[r1].out[i] \notin {ran[r1].in[j] : j \in 1..Len(ran[r1].in)}
        /\ ran[r2].out # ran[r2].in

-----------------------------------------------------------------------------
(* The forms of $limit and $skip                                           *)

MaxFormDocs == 3

MaxFormValue == 3

FormDocs == {("n" :> Num(i)) : i \in 1..3}

\* The value n of the stage under the stage-named key, under the generic
\* key, or bare.
StageForms(stageName, n) ==
    {Doc((stageName :> Num(n))), Doc(("value" :> Num(n))), Num(n)}

InitForms ==
    \E docs \in SeqsOf(FormDocs, 1, MaxFormDocs), n \in 0..MaxFormValue,
       stageName \in {"$limit", "$skip"} :
        \E form \in StageForms(stageName, n) :
            Call(("users" :> docs), "users", <<(stageName :> form)>>)

NextForms == Parse \/ Fetch \/ Limit \/ Skip

SpecForms == InitForms /\ [][NextForms]_vars

\* The number a form carries.
FormValue(stageName, form) ==
    IF form.k = "num" THEN form.v
    ELSE IF stageName \in DOMAIN form.v THEN form.v[stageName].v
    ELSE form.v["value"].v

\* C14: whichever of the three forms carries the number, Query returns no
\* error, and the same documents: the first n for $limit n, all but the
\* first k for $skip k.
C14_StageNamedKey ==
    pc = "done" =>
        /\ ret.err = NoErr
        /\ \A n \in 0..MaxFormValue :
            /\ ("$limit" \in DOMAIN query[1] /\ FormValue("$limit", query[1]["$limit"]) = n)
                => ret.docs = SubSeq(db["users"], 1, Min(n, Len(db["users"])))
            /\ ("$skip" \in DOMAIN query[1] /\ FormValue("$skip", query[1]["$skip"]) = n)
                => ret.docs = SubSeq(db["users"], n + 1, Len(db["users"]))

-----------------------------------------------------------------------------
(* $set                                                                    *)

MaxSetDocs == 2

SetDocs == {("a" :> Num(1)), ("a" :> Num(2)) @@ ("x" :> Num(3)), ("a" :> Str(Spell["b"]))}

\* One declared field: a literal or a reference to the field a.
SetSpecs ==
    {("x" :> Num(5)), ("b" :> Str(<<36>> \o Spell["a"])), ("a" :> Str(Spell["x"]))}

InitSet ==
    \E docs \in SeqsOf(SetDocs, 1, MaxSetDocs), S \in SetSpecs,
       stageName \in {"$set", "$addFields"} :
        \/ Call(("users" :> docs), "users", <<(stageName :> Doc(S))>>)
        \/ Call(("users" :> docs), "users", <<(stageName :> Doc(S)), ("$skip" :> Num(0))>>)

NextSet == Parse \/ Fetch \/ Set \/ AddFields \/ Skip

SpecSet == InitSet /\ [][NextSet]_vars

\* The value the declared expression has for doc.
DeclaredValue(doc, expr) ==
    IF expr.k = "str" /\ HasDollar(expr.v) THEN doc[KeyOf(Tail(expr.v))] ELSE expr

\* C15: a {$set: S} stage gives, for every input document, the document
\* with every field declared in S set to the value of its expression and
\* all other fields unchanged, as {$addFields: S} does.
C15_SetAddsFields ==
    LET S == query[1][CHOOSE name \in DOMAIN query[1] : TRUE].v
    IN  pc = "done" =>
            /\ ret.err = NoErr
            /\ Len(ret.docs) = Len(db["users"])
            /\ \A i \in 1..Len(ret.docs) :
                ret.docs[i] = [k \in DOMAIN db["users"][i] \cup DOMAIN S |->
                                IF k \in DOMAIN S THEN DeclaredValue(db["users"][i], S[k])
                                ELSE db["users"][i][k]]

-----------------------------------------------------------------------------
(* $firstN, $lastN, $maxN, $minN                                           *)

MaxTopDocs == 3

MaxTopN == 2

TopDocs ==
    {("g" :> Str(Spell[key])) @@ ("f" :> v) :
        key \in {"a", "b"}, v \in {Num(1), Num(2), Num(3), Nil, Str(Spell["x"])}}
    \cup {("g" :> Str(Spell["a"]))}

NAccumulators == {"$firstN", "$lastN", "$maxN", "$minN"}

TopSpecs ==
    {(op :> Doc(("n" :> Num(n)) @@ ("input" :> Str(<<36>> \o Spell["f"])))) :
        op \in NAccumulators, n \in 1..MaxTopN}
    \cup {("$push" :> Str(<<36>> \o Spell["f"]))}

InitTop ==
    \E docs \in SeqsOf(TopDocs, 1, MaxTopDocs), spec \in TopSpecs :
        Call(("users" :> docs), "users",
             <<("$group" :> Doc(("_id" :> Str(<<36>> \o Spell["g"])) @@ ("p" :> Doc(spec))))>>)

NextTop == Parse \/ Fetch \/ Group

SpecTop == InitTop /\ [][NextTop]_vars

\* The values of f, in input order, of the documents of the group key that
\* satisfy keep.
GroupValues(key, keep(_)) ==
    LET docs == SelectSeq(db["users"], LAMBDA d : d["g"] = key /\ "f" \in DOMAIN d /\ keep(d["f"]))
    IN  [i \in 1..Len(docs) |-> docs[i]["f"]]

\* C19: a $group with $firstN, $lastN, $maxN or $minN and {n, input: "$f"}
\* is accepted and run: Query returns no error and one document per key,
\* whose field holds the first n (last n) non-null values of f in input
\* order, or the n largest (smallest) numbers of f in sorted order, all of
\* them when there are fewer than n.
C19_NAccumulators ==
    LET spec == query[1]["$group"].v["p"].v
        op == CHOOSE o \in DOMAIN spec : TRUE
        n == spec[op].v["n"].v
        keys == {db["users"][i]["g"] : i \in 1..Len(db["users"])}
        nonNull(key) == GroupValues(key, LAMBDA v : v # Nil)
        numbers(key) == GroupValues(key, LAMBDA v : v.k = "num")
    IN  (pc = "done" /\ op \in NAccumulators) =>
            /\ ret.err = NoErr
            /\ \A key \in keys : \E j \in 1..Len(ret.docs) :
                /\ ret.docs[j]["_id"] = key
                /\ "p" \in DOMAIN ret.docs[j]
                /\ ret.docs[j]["p"].k = "arr"
                /\ CASE op = "$firstN" ->
                            ret.docs[j]["p"].v = SubSeq(nonNull(key), 1, Min(n, Len(nonNull(key))))
                     [] op = "$lastN" ->
                            ret.docs[j]["p"].v
                                = SubSeq(nonNull(key), Max(1, Len(nonNull(key)) - n + 1),
                                         Len(nonNull(key)))
                     [] op = "$maxN" ->
                            ret.docs[j]["p"].v
                                = SubSeq(Reverse(Numbers(SortFloat64s(
                                            [i \in 1..Len(numbers(key)) |-> numbers(key)[i].v])).v),
                                         1, Min(n, Len(numbers(key))))
                     [] op = "$minN" ->
                            ret.docs[j]["p"].v
                                = SubSeq(Numbers(SortFloat64s(
                                            [i \in 1..Len(numbers(key)) |-> numbers(key)[i].v])).v,
                                         1, Min(n, Len(numbers(key))))

-----------------------------------------------------------------------------
(* $addFields declaring several fields                                     *)

MaxSwapDocs == 2

MaxSwapValue == 2

SwapDocs == {("a" :> Num(x)) @@ ("b" :> Num(y)) : x \in 1..MaxSwapValue, y \in 1..MaxSwapValue}

SwapSpecs ==
    {("a" :> Str(<<36>> \o Spell["b"])) @@ ("b" :> Str(<<36>> \o Spell["a"])),
     ("x" :> Str(<<36>> \o Spell["a"])) @@ ("a" :> Num(9)),
     ("x" :> Str(<<36>> \o Spell["b"]))}

InitSwap ==
    \E docs \in SeqsOf(SwapDocs, 1, MaxSwapDocs), S \in SwapSpecs :
        \/ Call(("users" :> docs), "users", <<("$addFields" :> Doc(S))>>)
        \/ Call(("users" :> docs), "users", <<("$addFields" :> Doc(S)), ("$limit" :> Num(1))>>)

NextSwap == Parse \/ Fetch \/ AddFields \/ Limit

SpecSwap == InitSwap /\ [][NextSwap]_vars

\* C20: every field an $addFields stage declares gets the value its
\* expression has for the document as it was before the stage: {a: "$b",
\* b: "$a"} swaps a and b.
C20_ReadsDocumentBefore ==
    LET S == query[1]["$addFields"].v
    IN  pc = "done" =>
            \A i \in 1..Len(ret.docs) : \A field \in DOMAIN S :
                ret.docs[i][field]
                    = IF S[field].k = "str" /\ HasDollar(S[field].v)
                      THEN db["users"][i][KeyOf(Tail(S[field].v))]
                      ELSE S[field]

-----------------------------------------------------------------------------
(* $sort with several keys                                                 *)

MaxKeysDocs == 3

MaxKeysValue == 2

\* Collections whose documents carry their position as _id and numbers at a
\* and b.
KeysCollections ==
    UNION {{[i \in 1..n |-> ("_id" :> Num(i)) @@ ("a" :> Num(fa[i])) @@ ("b" :> Num(fb[i]))] :
                fa \in [1..n -> 1..MaxKeysValue], fb \in [1..n -> 1..MaxKeysValue]} :
           n \in 1..MaxKeysDocs}

\* The sort specs {a: d1, b: d2}: a is the key given first.
KeysSpecs == {("a" :> Num(d1)) @@ ("b" :> Num(d2)) : d1 \in {1, -1}, d2 \in {1, -1}}

InitKeys ==
    \E docs \in KeysCollections, sortSpec \in KeysSpecs :
        Call(("users" :> docs), "users", <<("$sort" :> Doc(sortSpec))>>)

NextKeys == Parse \/ Fetch \/ Sort

SpecKeys == InitKeys /\ [][NextKeys]_vars

\* x comes no later than y in direction d.
InDirection(d, x, y) == IF d = 1 THEN x <= y ELSE x >= y

\* C21: for the spec {a: d1, b: d2} the output of $sort is a permutation of
\* the input ordered by a in direction d1, and two documents equal on a are
\* ordered by b in direction d2; b never takes precedence over a.
C21_KeysInGivenOrder ==
    LET sortSpec == query[1]["$sort"].v
        out == ret.docs
    IN  pc = "done" =>
            /\ SameMultiset(out, db["users"])
            /\ \A p, q \in 1..Len(out) :
                p < q =>
                    /\ InDirection(sortSpec["a"].v, out[p]["a"].v, out[q]["a"].v)
                    /\ out[p]["a"] = out[q]["a"]
                        => InDirection(sortSpec["b"].v, out[p]["b"].v, out[q]["b"].v)

-----------------------------------------------------------------------------
(* $match: a condition map is a conjunction                                *)

MaxConjDocs == 2

MaxConjValue == 2

ConjDocs == {("a" :> Num(x)) @@ ("b" :> Num(y)) : x \in 1..MaxConjValue, y \in 1..MaxConjValue}

ConjConditions ==
    {("a" :> Num(1)) @@ ("b" :> Num(2)),
     ("a" :> Doc(("$gt" :> Num(0)) @@ ("$lt" :> Num(2)))),
     ("$or" :> Arr(<<Doc(("a" :> Num(1))), Doc(("b" :> Num(1)))>>)),
     ("$nor" :> Arr(<<Doc(("a" :> Num(1))), Doc(("b" :> Num(1)))>>)),
     ("$and" :> Arr(<<Doc(("a" :> Num(1))), Doc(("b" :> Doc(("$gte" :> Num(2))))) >>)),
     ("$or" :> Arr(<<Doc(("a" :> Num(1)))>>)) @@ ("b" :> Num(2)),
     ("$and" :> Arr(<<Doc(("a" :> Num(1)))>>)) @@ ("$nor" :> Arr(<<Doc(("b" :> Num(1)))>>)),
     ("$or" :> Arr(<<Doc(("$or" :> Arr(<<Doc(("a" :> Num(2)))>>)) @@ ("b" :> Num(1)))>>))}

InitConj ==
    \E docs \in SeqsOf(ConjDocs, 1, MaxConjDocs), condition \in ConjConditions :
        Call(("users" :> docs), "users", <<("$match" :> Doc(condition))>>)

NextConj == Parse \/ Fetch \/ Match

SpecConj == InitConj /\ [][NextConj]_vars

\* The document satisfies every entry of the condition map: $and all of its
\* sub-conditions, $or one of them, $nor none, a field entry its operators
\* or its literal.
RECURSIVE Satisfies(_, _)
Satisfies(doc, condition) ==
    \A key \in DOMAIN condition :
        LET val == condition[key]
        IN  CASE key = "$and" -> \A i \in 1..Len(val.v) : Satisfies(doc, val.v[i].v)
              [] key = "$or" -> \E i \in 1..Len(val.v) : Satisfies(doc, val.v[i].v)
              [] key = "$nor" -> \A i \in 1..Len(val.v) : ~Satisfies(doc, val.v[i].v)
              [] OTHER -> fieldHolds(doc, key, val)

\* C22: $match returns exactly the documents that satisfy every entry of
\* the condition map, also when the map holds a combinator next to field
\* criteria or next to another combinator.
C22_Conjunctive ==
    pc = "done" =>
        ret.docs = SelectSeq(db["users"], LAMBDA doc : Satisfies(doc, query[1]["$match"].v))

-----------------------------------------------------------------------------
(* $match with $not                                                        *)

MaxNotDocs == 2

\* The strings "a", "b" and "ab".
NotStrings == {<<97>>, <<98>>, <<97, 98>>}

NotDocs ==
    {("f" :> Str(t)) : t \in NotStrings} \cup {("f" :> Num(1)), ("g" :> Num(1))}

\* The operands of $not: operator objects and bare patterns.
NotOperands ==
    {Doc(("$eq" :> Str(<<97>>))), Doc(("$gt" :> Num(0))), Doc(("$exists" :> Bool(TRUE))),
     Doc(("$in" :> Arr(<<Num(1), Str(<<98>>)>>))), Str(<<97>>), Str(<<98>>)}

InitNot ==
    \E docs \in SeqsOf(NotDocs, 1, MaxNotDocs), operand \in NotOperands :
        Call(("users" :> docs), "users",
             <<("$match" :> Doc(("f" :> Doc(("$not" :> operand)))))>>)

NextNot == Parse \/ Fetch \/ Match

SpecNot == InitNot /\ [][NextNot]_vars

\* The document satisfies the operand of $not on field f: an operator object
\* whose operators hold for the value of f, or a pattern that matches the
\* string f holds.
SatisfiesOperand(doc, operand) ==
    LET got == getNestedFieldExists(doc, "f")
    IN  IF operand.k = "doc" THEN evaluateOperators(got.val, got.exists, operand.v)
        ELSE got.val.k = "str" /\ regexpMatchString(operand.v, got.val.v)

\* C23: {f: {$not: X}} returns exactly the documents that do not satisfy X
\* on f, for an operator object X and for a bare pattern X.
C23_NotNegates ==
    pc = "done" =>
        ret.docs = SelectSeq(db["users"],
                             LAMBDA doc : ~SatisfiesOperand(doc, query[1]["$match"].v["f"].v["$not"]))

\* The same for operator objects only.
C23_NotNegatesOperators ==
    (pc = "done" /\ query[1]["$match"].v["f"].v["$not"].k = "doc") =>
        ret.docs = SelectSeq(db["users"],
                             LAMBDA doc : ~SatisfiesOperand(doc, query[1]["$match"].v["f"].v["$not"]))

-----------------------------------------------------------------------------
(* $match with $expr                                                       *)

MaxExprDocs == 2

MaxExprValue == 2

ExprDocs == {("a" :> Num(x)) @@ ("b" :> Num(y)) : x \in 1..MaxExprValue, y \in 1..MaxExprValue}

\* ["$a", "$b"]
ExprOperands == Arr(<<Str(<<36>> \o Spell["a"]), Str(<<36>> \o Spell["b"])>>)

\* The operator objects $expr carries.
ExprObjects ==
    {Doc(op :> ExprOperands) : op \in {"$ne", "$eq", "$gt", "$in"}}
        \cup {Doc(("$exists" :> Bool(FALSE)))}

\* Conditions with $expr as a top-level key and as an operator under a field.
ExprConditions ==
    {("$expr" :> obj) : obj \in ExprObjects}
        \cup {("a" :> Doc(("$expr" :> obj))) : obj \in ExprObjects}

InitExpr ==
    \E docs \in SeqsOf(ExprDocs, 1, MaxExprDocs), condition \in ExprConditions :
        Call(("users" :> docs), "users", <<("$match" :> Doc(condition))>>)

NextExpr == Parse \/ Fetch \/ Match

SpecExpr == InitExpr /\ [][NextExpr]_vars

\* C24: a $match whose condition uses $expr, as a top-level key or as an
\* operator under a field, returns no document.
C24_ExprMatchesNothing ==
    pc = "done" => ret.docs = <<>>

\* The same for $expr as an operator under a field only.
C24_ExprUnderFieldMatchesNothing ==
    (pc = "done" /\ "a" \in DOMAIN query[1]["$match"].v) => ret.docs = <<>>

-----------------------------------------------------------------------------
(* Boolean coercion in $project expressions                                *)

MaxBoolDocs == 1

\* The values of field a: null, strings, numbers, booleans, arrays, a
\* sub-document.
BoolValues ==
    {Nil, Str(<<>>), Str(<<97>>), Num(0), Num(1), Bool(TRUE), Bool(FALSE),
     Arr(<<>>), Arr(<<Num(1)>>), Doc(("b" :> Num(1)))}

BoolDocs == {("a" :> val) : val \in BoolValues} \cup {("b" :> Num(1))}

\* "$a"
RefA == Str(<<36>> \o Spell["a"])

\* The expressions that coerce the value of a: x is true, or 1, iff the
\* value is truthy, except under $not, where x is true iff it is falsy.
BoolExpressions ==
    {Doc(("$and" :> Arr(<<RefA, Bool(TRUE)>>))),
     Doc(("$or" :> Arr(<<Bool(FALSE), RefA>>))),
     Doc(("$not" :> RefA)),
     Doc(("$cond" :> Arr(<<RefA, Bool(TRUE), Bool(FALSE)>>))),
     Doc(("$cond" :> Doc(("if" :> RefA) @@ ("then" :> Bool(TRUE)) @@ ("else" :> Bool(FALSE)))))}

InitBool ==
    \E docs \in SeqsOf(BoolDocs, 1, MaxBoolDocs), expr \in BoolExpressions :
        Call(("users" :> docs), "users", <<("$project" :> Doc(("x" :> expr)))>>)

NextBool == Parse \/ Fetch \/ Project

SpecBool == InitBool /\ [][NextBool]_vars

\* Falsy are null, the empty string, zero and false; the rest is truthy.
Truthy(val) == val \notin {Nil, Str(<<>>), Num(0), Bool(FALSE)}

\* C25: $and, $or, $not and the condition of $cond take null, the empty
\* string, zero and false for false and every other operand value, arrays
\* and documents included, for true.
C25_Coercion ==
    pc = "done" =>
        \A i \in 1..Len(ret.docs) :
            LET val == Get(db["users"][i], "a")
                expr == query[1]["$project"].v["x"].v
            IN  ret.docs[i]["x"] = Bool(IF "$not" \in DOMAIN expr THEN ~Truthy(val) ELSE Truthy(val))

\* The same for operands that are neither arrays nor documents.
C25_CoercionOfScalars ==
    pc = "done" =>
        \A i \in 1..Len(ret.docs) :
            LET val == Get(db["users"][i], "a")
                expr == query[1]["$project"].v["x"].v
            IN  val.k \notin {"arr", "doc"} =>
                    ret.docs[i]["x"] = Bool(IF "$not" \in DOMAIN expr THEN ~Truthy(val) ELSE Truthy(val))

-----------------------------------------------------------------------------
(* $unwind alone                                                           *)

MaxUnwindDocs == 2

MaxUnwindLen == 2

\* What p holds: null, an empty array, arrays of scalars and sub-documents,
\* and values that are no array.
UnwindValues ==
    {Nil, Num(5), Str(<<120>>), Doc(("a" :> Num(1)))}
        \cup {Arr(A) : A \in SeqsOf({Num(1), Doc(("a" :> Num(1)))}, 0, MaxUnwindLen)}

UnwindDocs == {("n" :> Num(1))} \cup {("n" :> Num(1)) @@ ("p" :> val) : val \in UnwindValues}

UnwindParams ==
    {("path" :> Str(<<36>> \o Spell["p"])) @@ preserve @@ index :
        preserve \in {EmptyDoc, ("preserveNullAndEmptyArrays" :> Bool(TRUE))},
        index \in {EmptyDoc, ("includeArrayIndex" :> Str(Spell["idx"]))}}

InitUnwind ==
    \E docs \in SeqsOf(UnwindDocs, 1, MaxUnwindDocs), params \in UnwindParams :
        Call(("users" :> docs), "users", <<("$unwind" :> Doc(params))>>)

NextUnwind == Parse \/ Fetch \/ Unwind

SpecUnwind == InitUnwind /\ [][NextUnwind]_vars

\* The documents one input document unwinds to: one per element, p holding
\* the element itself and the index field its zero-based index; the document
\* itself when p holds no array; nothing, or the document when preserve is
\* set, when p is missing, null or an empty array.
Unwound(doc, preserve, indexField) ==
    IF "p" \notin DOMAIN doc \/ doc["p"] = Nil \/ doc["p"] = Arr(<<>>)
    THEN IF preserve THEN <<doc>> ELSE <<>>
    ELSE IF doc["p"].k = "arr"
    THEN [at \in 1..Len(doc["p"].v) |->
            IF indexField = "" THEN Put(doc, "p", doc["p"].v[at])
            ELSE Put(Put(doc, "p", doc["p"].v[at]), indexField, Num(at - 1))]
    ELSE <<doc>>

RECURSIVE UnwoundFrom(_, _, _, _)
UnwoundFrom(input, i, preserve, indexField) ==
    IF i > Len(input) THEN <<>>
    ELSE Unwound(input[i], preserve, indexField) \o UnwoundFrom(input, i + 1, preserve, indexField)

\* C26: $unwind on p returns, for the input documents in order, one document
\* per element of the array at p with p holding the element itself (scalar
\* or sub-document) and the index field its zero-based index, one document
\* for a value that is no array, and none (or the original, under
\* preserveNullAndEmptyArrays) for a missing, null or empty p.
C26_Unwind ==
    pc = "done" =>
        ret.docs = UnwoundFrom(db["users"], 1, unwindPreserve(query[1]["$unwind"].v),
                               unwindIndexField(query[1]["$unwind"].v))

\* The same for inputs whose arrays at p hold sub-documents only.
C26_UnwindOfDocuments ==
    (pc = "done" /\ \A i \in 1..Len(db["users"]) :
                        ("p" \in DOMAIN db["users"][i] /\ db["users"][i]["p"].k = "arr")
                            => \A at \in 1..Len(db["users"][i]["p"].v) :
                                    db["users"][i]["p"].v[at].k = "doc") =>
        ret.docs = UnwoundFrom(db["users"], 1, unwindPreserve(query[1]["$unwind"].v),
                               unwindIndexField(query[1]["$unwind"].v))

-----------------------------------------------------------------------------
(* $project field selection                                                *)

\* Some field other than _id has spec 1.
InclusionMode(spec) == \E field \in DOMAIN spec \ {"_id"} : spec[field] = Num(1)

\* The fields of the output document in inclusion mode.
IncludedFields(doc, spec) ==
    {field \in DOMAIN spec : spec[field] = Num(1) /\ field \in DOMAIN doc}
        \cup {field \in DOMAIN spec : spec[field].k # "num"}
        \cup (IF "_id" \in DOMAIN doc /\ Get(spec, "_id") # Num(0) THEN {"_id"} ELSE {})

\* What the field holds in the output: the evaluated expression for a
\* non-numeric spec, otherwise what the input holds.
SelectedValue(doc, spec, field) ==
    IF field \in DOMAIN spec /\ spec[field].k # "num"
    THEN evaluateProjectExpression(doc, spec[field])
    ELSE doc[field]

\* The output document is the selection of the input document by spec.
Selects(out, doc, spec) ==
    IF InclusionMode(spec)
    THEN out = [field \in IncludedFields(doc, spec) |-> SelectedValue(doc, spec, field)]
    ELSE \A field \in DOMAIN doc :
            IF Get(spec, field) = Num(0) THEN field \notin DOMAIN out
            ELSE field \in DOMAIN out /\ out[field] = SelectedValue(doc, spec, field)

\* C27: in inclusion mode each output document of $project holds exactly
\* the existing fields with spec 1, the fields with a non-numeric spec and
\* _id unless the spec gives _id: 0; in exclusion mode it holds every input
\* field except those with spec 0.
C27_FieldSelection ==
    \A n \in 1..Len(ran) :
        ran[n].stage = "$project" =>
            /\ Len(ran[n].out) = Len(ran[n].in)
            /\ \A i \in 1..Len(ran[n].out) :
                    Selects(ran[n].out[i], ran[n].in[i], query[1]["$project"].v)

\* The same for specifications that do not give 1 to one field other than
\* _id and 0 to another.
C27_FieldSelectionUnmixed ==
    \A n \in 1..Len(ran) :
        (ran[n].stage = "$project" /\ ~MixesModes(query[1]["$project"].v)) =>
            /\ Len(ran[n].out) = Len(ran[n].in)
            /\ \A i \in 1..Len(ran[n].out) :
                    Selects(ran[n].out[i], ran[n].in[i], query[1]["$project"].v)

-----------------------------------------------------------------------------
(* $bucketAuto: every numeric document in one bucket                       *)

MaxAutoDocs == 3

MaxAutoValue == 3

MaxAutoBuckets == 3

\* x holds a small number, 2^53, the string "2" (which toFloat64 converts),
\* the string "x" (which it does not), or is missing.
AutoDocs ==
    {("x" :> Num(v)) : v \in 1..MaxAutoValue}
        \cup {("x" :> Num(Float64Limit)), ("x" :> Str(<<50>>)), ("x" :> Str(<<120>>)),
              ("n" :> Num(1))}

\* {groupBy: "$x", buckets: B, output: {count: {$sum: "1"}}}
AutoParams(B) ==
    ("groupBy" :> Str(<<36>> \o Spell["x"])) @@ ("buckets" :> Num(B))
        @@ ("output" :> Doc(("count" :> Doc(("$sum" :> Str(<<49>>))))))

InitAuto ==
    \E docs \in SeqsOf(AutoDocs, 1, MaxAutoDocs), B \in 1..MaxAutoBuckets :
        Call(("users" :> docs), "users", <<("$bucketAuto" :> Doc(AutoParams(B)))>>)

NextAuto == Parse \/ Fetch \/ BucketAuto

SpecAuto == InitAuto /\ [][NextAuto]_vars

\* The positions of input whose x is a value toFloat64 converts.
NumericPositions(input) ==
    {p \in 1..Len(input) : "x" \in DOMAIN input[p] /\ toFloat64Ok(input[p]["x"])}

\* The positions whose value lies in the i-th interval of the boundaries,
\* the last interval being closed.
PositionsInInterval(input, boundaries, i) ==
    {p \in NumericPositions(input) :
        /\ boundaries[i] <= toFloat64(input[p]["x"])
        /\ IF i = Len(boundaries) - 1 THEN toFloat64(input[p]["x"]) <= boundaries[i + 1]
           ELSE toFloat64(input[p]["x"]) < boundaries[i + 1]}

\* The stage emitted between 1 and B buckets over strictly increasing
\* boundaries, and their counts place every numeric document in exactly one.
Partitions(input, params, out) ==
    LET boundaries == autoBoundaries(input, params)
    IN  /\ Len(out) >= 1
        /\ Len(out) <= params["buckets"].v
        /\ Len(out) = Len(boundaries) - 1
        /\ \A i \in 1..(Len(boundaries) - 1) : boundaries[i] < boundaries[i + 1]
        /\ \A i \in 1..Len(out) :
                out[i]["count"] = Num(Cardinality(PositionsInInterval(input, boundaries, i)))
        /\ \A p \in NumericPositions(input) :
                Cardinality({i \in 1..(Len(boundaries) - 1) :
                                p \in PositionsInInterval(input, boundaries, i)}) = 1
        /\ SumCounts(out) = Cardinality(NumericPositions(input))

\* C28: over an input with at least one numeric groupBy value, $bucketAuto
\* with buckets = B emits between 1 and B buckets with strictly increasing
\* boundaries, every document with a numeric value is counted in exactly
\* one of them, and the documents without one in none.
C28_AutoPartition ==
    \A r \in 1..Len(ran) :
        (ran[r].stage = "$bucketAuto" /\ NumericPositions(ran[r].in) # {}) =>
            /\ ran[r].err = NoErr
            /\ Partitions(ran[r].in, stages[r].Params, ran[r].out)

\* The same for inputs whose numeric values are not all 2^53.
C28_AutoPartitionBelowLimit ==
    \A r \in 1..Len(ran) :
        (/\ ran[r].stage = "$bucketAuto"
         /\ \E p \in NumericPositions(ran[r].in) : ran[r].in[p]["x"] # Num(Float64Limit)) =>
            /\ ran[r].err = NoErr
            /\ Partitions(ran[r].in, stages[r].Params, ran[r].out)

-----------------------------------------------------------------------------
(* One expression in $project and in $addFields                            *)

MaxSharedDocs == 2

SharedDocs ==
    {("a" :> Num(1)) @@ ("k" :> Str(<<120>>)) @@ ("n" :> Num(2)),
     ("a" :> Doc(("b" :> Num(1)))) @@ ("k" :> Str(<<121>>)),
     ("a" :> Bool(FALSE)) @@ ("x" :> Num(3))}

\* An operator no evaluator knows.
UnknownOperator == "$unknown"

\* Literals, field references ("$a", "$k", "$a.b"), and operator
\* expressions: $concat of strings, $concat with a number, $add, $cond and
\* an unknown operator.
SharedExpressions ==
    {Bool(TRUE), Num(1), Num(5), Str(<<108>>),
     RefA, Str(<<36>> \o Spell["k"]), Str(<<36>> \o Spell["a.b"]),
     Doc(("$concat" :> Arr(<<Str(<<36>> \o Spell["k"]), Str(<<45>>)>>))),
     Doc(("$concat" :> Arr(<<Str(<<36>> \o Spell["k"]), Str(<<36>> \o Spell["n"])>>))),
     Doc(("$add" :> Arr(<<RefA, Num(1)>>))),
     Doc(("$cond" :> Arr(<<RefA, Num(1), Num(2)>>))),
     Doc((UnknownOperator :> Num(1)))}

InitShared ==
    \E docs \in SeqsOf(SharedDocs, 1, MaxSharedDocs), e \in SharedExpressions,
       stageName \in {"$project", "$addFields"} :
        Call(("users" :> docs), "users", <<(stageName :> Doc(("x" :> e)))>>)

NextShared == Parse \/ Fetch \/ Project \/ AddFields

SpecShared == InitShared /\ [][NextShared]_vars

\* What a result says about x: whether the call failed and, per document,
\* the value of x, if any.
Outcome(err, docs) ==
    [failed |-> err # NoErr,
     xs |-> [i \in 1..Len(docs) |-> IF "x" \in DOMAIN docs[i] THEN <<docs[i]["x"]>> ELSE <<>>]]

\* The outcome of [{$project: params}] over input.
ProjectOutcome(input, params) ==
    IF validateProjectStage(params) # NoErr THEN Outcome("invalid", <<>>)
    ELSE Outcome(NoErr, projectStage(input, params))

\* The outcomes of [{$addFields: params}] over input.
AddFieldsOutcomes(input, params) ==
    IF validateAddFieldsStage(params) # NoErr THEN {Outcome("invalid", <<>>)}
    ELSE {Outcome(res.err, res.out) : res \in addFieldsStage(input, params)}

\* C29: $project {x: e} and $addFields {x: e} give x the same value for
\* every expression e and every document, and an expression with an
\* unknown operator makes both fail.
C29_SharedEvaluator ==
    pc = "done" =>
        LET stageName == CHOOSE name \in DOMAIN query[1] : TRUE
            params == query[1][stageName].v
        IN  /\ stageName = "$project" =>
                    AddFieldsOutcomes(db["users"], params) = {Outcome(ret.err, ret.docs)}
            /\ stageName = "$addFields" =>
                    ProjectOutcome(db["users"], params) = Outcome(ret.err, ret.docs)
            /\ (params["x"].k = "doc" /\ UnknownOperator \in DOMAIN params["x"].v)
                    => ret.err # NoErr

\* The two stages agree on a boolean literal and on a reference to a
\* top-level field.
C29_AgreeOnReferences ==
    pc = "done" =>
        LET stageName == CHOOSE name \in DOMAIN query[1] : TRUE
            params == query[1][stageName].v
        IN  (params["x"] \in {Bool(TRUE), RefA, Str(<<36>> \o Spell["k"])}) =>
                /\ stageName = "$project" =>
                        AddFieldsOutcomes(db["users"], params) = {Outcome(ret.err, ret.docs)}
                /\ stageName = "$addFields" =>
                        ProjectOutcome(db["users"], params) = Outcome(ret.err, ret.docs)

-----------------------------------------------------------------------------
(* $facet: a sub-pipeline against the same pipeline at the top level       *)

MaxSubDocs == 2

SubDocs == {("a" :> Num(1)), ("a" :> Num(2)), ("a" :> Num(1)) @@ ("b" :> Num(3))}

\* {"field": "n"}
CountN == Doc(("field" :> Str(Spell["n"])))

\* Sub-pipelines of $match, $sort, $limit, $skip, $count and $addFields.
SubPipelines ==
    {Arr(<<Doc(("$match" :> Doc(("a" :> Num(1)))))>>),
     Arr(<<Doc(("$sort" :> Doc(("a" :> Num(-1))))), Doc(("$limit" :> Doc(("value" :> Num(1)))))>>),
     Arr(<<Doc(("$skip" :> Doc(("value" :> Num(1)))))>>),
     Arr(<<Doc(("$limit" :> Num(1)))>>),
     Arr(<<Doc(("$count" :> CountN))>>),
     Arr(<<Doc(("$match" :> Doc(("a" :> Num(1))))), Doc(("$count" :> CountN))>>),
     Arr(<<Doc(("$match" :> Doc(("a" :> Num(9))))), Doc(("$count" :> CountN))>>),
     Arr(<<Doc(("$addFields" :> Doc(("x" :> Num(1)))))>>)}

InitSub ==
    \E docs \in SeqsOf(SubDocs, 1, MaxSubDocs),
       params \in [{"a", "b"} -> SubPipelines] \cup [{"a"} -> SubPipelines] :
        Call(("users" :> docs), "users", <<("$facet" :> Doc(params))>>)

NextSub == Parse \/ Fetch \/ Facet

SpecSub == InitSub /\ [][NextSub]_vars

\* What Query may return, [docs, err], for the stages i.. of a pipeline of
\* $match, $sort, $limit, $skip, $count and $addFields over data: each stage
\* as its action runs it, the loop ending at an error, at an empty sequence
\* or after the last stage.
RECURSIVE QueryFrom(_, _, _)
QueryFrom(data, pipeline, i) ==
    IF Len(data) = 0 \/ i > Len(pipeline) THEN {[docs |-> data, err |-> NoErr]}
    ELSE LET key == CHOOSE k \in DOMAIN pipeline[i].v : TRUE
             params == paramsMap(pipeline[i].v[key])
             results ==
                CASE key = "$match" ->
                        {[out |-> out, err |-> NoErr] : out \in matchStage(data, params)}
                  [] key = "$sort" ->
                        {[out |-> out, err |-> NoErr] : out \in sortStage(data, params)}
                  [] key = "$limit" -> {[out |-> limitStage(data, params), err |-> NoErr]}
                  [] key = "$skip" -> {[out |-> skipStage(data, params), err |-> NoErr]}
                  [] key = "$count" -> {countStage(data, params)}
                  [] key = "$addFields" -> addFieldsStage(data, params)
         IN  UNION {IF res.err # NoErr THEN {[docs |-> <<>>, err |-> res.err]}
                    ELSE QueryFrom(res.out, pipeline, i + 1) : res \in results}

\* C30: a $facet stage that passes validation does not crash, and stores
\* under every facet name what Query returns for that sub-pipeline alone
\* over the input of the stage, whatever the other facets are.
C30_FacetLikeQuery ==
    /\ pc # "panic"
    /\ (pc = "done" /\ ret.err = NoErr) =>
            \A facetName \in DOMAIN query[1]["$facet"].v :
                /\ facetName \in DOMAIN ret.docs[1]
                /\ \E res \in QueryFrom(db["users"], query[1]["$facet"].v[facetName].v, 1) :
                        /\ res.err = NoErr
                        /\ ret.docs[1][facetName] = Maps(res.docs)

\* The same for facets whose sub-pipelines hold $match, $sort, $limit and
\* $skip stages with object parameters only, and leave some document.
C30_FacetLikeQueryOfFilters ==
    (/\ pc = "done"
     /\ ret.err = NoErr
     /\ \A facetName \in DOMAIN query[1]["$facet"].v :
            \A i \in 1..Len(query[1]["$facet"].v[facetName].v) :
                /\ DOMAIN query[1]["$facet"].v[facetName].v[i].v
                        \subseteq {"$match", "$sort", "$limit", "$skip"}
                /\ \A k \in DOMAIN query[1]["$facet"].v[facetName].v[i].v :
                        query[1]["$facet"].v[facetName].v[i].v[k].k = "doc") =>
        \A facetName \in DOMAIN query[1]["$facet"].v :
            /\ facetName \in DOMAIN ret.docs[1]
            /\ \E res \in QueryFrom(db["users"], query[1]["$facet"].v[facetName].v, 1) :
                    /\ res.err = NoErr
                    /\ ret.docs[1][facetName] = Maps(res.docs)

=============================================================================
